---- MODULE Spec2Model ----
(***************************************************************************)
(* Model of the player-generation edge function                            *)
(* (src/supabase/functions/players/index.ts) and of the saved-games edge   *)
(* function (src/supabase/functions/saves/index.ts).                       *)
(*                                                                         *)
(* The numeric code runs on JavaScript numbers, i.e. IEEE-754 binary64.    *)
(* Several results of the program differ from exact decimal arithmetic     *)
(* (0.7 + 0.6*0.15 is 0.7899999999999999, so its percentage is 78 and not  *)
(* 79), so the arithmetic is modelled bit-exactly: a number is a sign, a   *)
(* natural mantissa held in limbs of 14 bits, and a binary exponent; every *)
(* operation computes the exact result and rounds it to 53 significant     *)
(* bits, ties to even.                                                     *)
(***************************************************************************)
EXTENDS Integers, Sequences, FiniteSets, TLC

(***************************************************************************)
(* State.  One request is in flight through handleRequest and              *)
(* handleGeneratePlayer of the players function; the function-level        *)
(* specifications use call/result for one call of a generator function;    *)
(* the saves function has its table and the requests it is handling.       *)
(***************************************************************************)
VARIABLES
  pc,              \* position of the request in handleRequest / handleGeneratePlayer
  req,             \* the request: Authorization header, method, path, body
  player,          \* local `player` of handleGeneratePlayer (line 408)
  scoutingReport,  \* local `scoutingReport` of handleGeneratePlayer (line 418)
  draws,           \* number of Math.random() calls made for the request
  dbCalls,         \* calls made on the database client: inserts (line 423), selects (468, 503)
  sink,            \* what the awaited database call gave: { data, error }, or a rejection
  response,        \* the ApiResponse returned by handleRequest
  user,            \* the user of supabase.auth.getUser() (line 62)
  call,            \* function-level specifications: the function called and its arguments
  result,          \* function-level specifications: the value it returned
  saved_games,     \* saves function: the rows of the table public.saved_games
  nextId,          \* saves function: number of the next row the table gives an id to
  inflight         \* saves function: the requests being handled, by slot

\* the state of the saves function
savesVars == <<saved_games, nextId, inflight>>

\* the state of the players function and of the function-level specifications
playersVars ==
  <<pc, req, player, scoutingReport, draws, dbCalls, sink, response, user, call, result>>

vars == <<pc, req, player, scoutingReport, draws, dbCalls, sink, response, user, call, result,
          saved_games, nextId, inflight>>

(***************************************************************************)
(* Bounds of the model.                                                    *)
(***************************************************************************)
\* Math.random() is a double in [0,1); the model draws k/RandDen, k in 0..RandDen-1
RandDen == 16
\* the largest skill value of a scout skill profile
MaxSkill == 10
\* the oldest player handed to generatePlayerPotential
MaxAge == 35

(***************************************************************************)
(* Natural numbers of arbitrary size: little-endian sequences of limbs in  *)
(* 0..Base-1 without leading (most significant) zero limbs; <<>> is zero.  *)
(***************************************************************************)
Base == 16384
LimbBits == 14
Precision == 53

RECURSIVE Pow2(_)
Pow2(n) == IF n = 0 THEN 1 ELSE 2 * Pow2(n - 1)

RECURSIVE BNorm(_)
BNorm(a) ==
  IF a = <<>> THEN <<>>
  ELSE IF a[Len(a)] = 0 THEN BNorm(SubSeq(a, 1, Len(a) - 1)) ELSE a

RECURSIVE BFromInt(_)
BFromInt(n) == IF n = 0 THEN <<>> ELSE <<n % Base>> \o BFromInt(n \div Base)

RECURSIVE BToInt(_)
BToInt(a) == IF a = <<>> THEN 0 ELSE a[1] + Base * BToInt(Tail(a))

BLimb(a, i) == IF i >= 1 /\ i <= Len(a) THEN a[i] ELSE 0

RECURSIVE BAddC(_, _, _, _)
BAddC(a, b, i, c) ==
  IF i > Len(a) /\ i > Len(b)
  THEN IF c = 0 THEN <<>> ELSE <<c>>
  ELSE LET s == BLimb(a, i) + BLimb(b, i) + c
       IN  <<s % Base>> \o BAddC(a, b, i + 1, s \div Base)

BAdd(a, b) == BAddC(a, b, 1, 0)

\* a - b for a >= b
RECURSIVE BSubC(_, _, _, _)
BSubC(a, b, i, c) ==
  IF i > Len(a) THEN <<>>
  ELSE LET s == BLimb(a, i) - BLimb(b, i) - c
       IN  IF s < 0 THEN <<s + Base>> \o BSubC(a, b, i + 1, 1)
                    ELSE <<s>> \o BSubC(a, b, i + 1, 0)

BSub(a, b) == BNorm(BSubC(a, b, 1, 0))

\* -1, 0, 1 as a < b, a = b, a > b
RECURSIVE BCmpFrom(_, _, _)
BCmpFrom(a, b, i) ==
  IF i = 0 THEN 0
  ELSE IF a[i] < b[i] THEN -1
  ELSE IF a[i] > b[i] THEN 1
  ELSE BCmpFrom(a, b, i - 1)

BCmp(a, b) ==
  IF Len(a) < Len(b) THEN -1
  ELSE IF Len(a) > Len(b) THEN 1
  ELSE BCmpFrom(a, b, Len(a))

RECURSIVE BColumn(_, _, _, _)
BColumn(a, b, k, i) ==
  IF i > Len(a) THEN 0
  ELSE BLimb(a, i) * BLimb(b, k + 1 - i) + BColumn(a, b, k, i + 1)

RECURSIVE BMulC(_, _, _, _)
BMulC(a, b, k, c) ==
  IF k > Len(a) + Len(b) THEN <<>>
  ELSE LET s == c + BColumn(a, b, k, 1)
       IN  <<s % Base>> \o BMulC(a, b, k + 1, s \div Base)

BMul(a, b) == BNorm(BMulC(a, b, 1, 0))

\* quotient and remainder of a by a small d (1 <= d <= Base)
RECURSIVE BDivS(_, _, _, _)
BDivS(a, i, r, d) ==
  IF i = 0 THEN [q |-> <<>>, r |-> r]
  ELSE LET cur  == r * Base + a[i]
           rest == BDivS(a, i - 1, cur % d, d)
       IN  [q |-> Append(rest.q, cur \div d), r |-> rest.r]

BDivNorm(res) == [q |-> BNorm(res.q), r |-> res.r]

BDivSmall(a, d) == BDivNorm(BDivS(a, Len(a), 0, d))

\* a * 2^n
BShl(a, n) ==
  IF a = <<>> THEN <<>>
  ELSE [i \in 1..(n \div LimbBits) |-> 0]
       \o BMul(a, <<Pow2(n % LimbBits)>>)

\* a \div 2^n, with sticky = (a % 2^n # 0)
BShrLimbs(low, res) ==
  [q |-> res.q, sticky |-> res.r # 0 \/ (\E i \in 1..Len(low) : low[i] # 0)]

BShr(a, n) ==
  BShrLimbs(SubSeq(a, 1, IF n \div LimbBits < Len(a) THEN n \div LimbBits ELSE Len(a)),
            BDivSmall(SubSeq(a, n \div LimbBits + 1, Len(a)), Pow2(n % LimbBits)))

RECURSIVE BitLenInt(_)
BitLenInt(n) == IF n = 0 THEN 0 ELSE 1 + BitLenInt(n \div 2)

BBitLen(a) ==
  IF a = <<>> THEN 0 ELSE LimbBits * (Len(a) - 1) + BitLenInt(a[Len(a)])

BOdd(a) == a # <<>> /\ a[1] % 2 = 1

(***************************************************************************)
(* binary64 numbers: (-1)^neg * m * 2^e.  The exponent range of the        *)
(* program's values is far from overflow and from the subnormals.          *)
(***************************************************************************)
FZero == [neg |-> FALSE, m |-> <<>>, e |-> 0]

\* round the exact value (-1)^neg * (m + sticky-fraction) * 2^e to nearest, ties to even
\* q is the mantissa cut to Precision bits, guard the first bit cut off, st whether
\* any lower bit is set
FRoundUp(neg, q, e, guard, st) ==
  [neg |-> neg, m |-> IF guard /\ (st \/ BOdd(q)) THEN BAdd(q, <<1>>) ELSE q, e |-> e]

\* s1 is the mantissa shifted so that Precision + 1 bits are left
FRoundCut(neg, s1, e, sticky) ==
  FRoundUp(neg, BDivSmall(s1.q, 2).q, e, BOdd(s1.q), s1.sticky \/ sticky)

FRoundLen(neg, m, e, sticky, L) ==
  IF L <= Precision THEN [neg |-> neg, m |-> m, e |-> e]
  ELSE FRoundCut(neg, BShr(m, L - Precision - 1), e + L - Precision, sticky)

FRound(neg, m, e, sticky) == FRoundLen(neg, m, e, sticky, BBitLen(m))

FFromInt(n) ==
  IF n = 0 THEN FZero
  ELSE [neg |-> n < 0, m |-> BFromInt(IF n < 0 THEN -n ELSE n), e |-> 0]

FNeg(x) == IF x.m = <<>> THEN x ELSE [x EXCEPT !.neg = ~x.neg]

FMul(x, y) ==
  IF x.m = <<>> \/ y.m = <<>> THEN FZero
  ELSE FRound(x.neg # y.neg, BMul(x.m, y.m), x.e + y.e, FALSE)

\* the sum of the magnitudes mx, my (same sign) or their difference (c is BCmp(mx, my))
FAddMagnitudes(xneg, yneg, mx, my, e, c) ==
  IF xneg # yneg /\ c = 0 THEN FZero
  ELSE FRound(IF xneg = yneg \/ c > 0 THEN xneg ELSE yneg,
              IF xneg = yneg THEN BAdd(mx, my)
              ELSE IF c > 0 THEN BSub(mx, my) ELSE BSub(my, mx),
              e, FALSE)

FAddAligned(xneg, yneg, mx, my, e) == FAddMagnitudes(xneg, yneg, mx, my, e, BCmp(mx, my))

\* both mantissas at the smaller exponent e
FAddAt(x, y, e) == FAddAligned(x.neg, y.neg, BShl(x.m, x.e - e), BShl(y.m, y.e - e), e)

FAdd(x, y) ==
  IF x.m = <<>> THEN y
  ELSE IF y.m = <<>> THEN x
  ELSE FAddAt(x, y, IF x.e < y.e THEN x.e ELSE y.e)

FSub(x, y) == FAdd(x, FNeg(y))

\* x / d for a positive integer d <= Base: 64 extra quotient bits, then one rounding
FDivRound(x, res) == FRound(x.neg, res.q, x.e - 64, res.r # 0)

FDivInt(x, d) ==
  IF x.m = <<>> THEN FZero
  ELSE FDivRound(x, BDivSmall(BShl(x.m, 64), d))

\* -1, 0, 1 as x < y, x = y, x > y
FSign(d) == IF d.m = <<>> THEN 0 ELSE IF d.neg THEN -1 ELSE 1

FCmp(x, y) == FSign(FSub(x, y))

FMin(x, y) == IF FCmp(y, x) < 0 THEN y ELSE x
FMax(x, y) == IF FCmp(y, x) > 0 THEN y ELSE x

FFloorOf(neg, s) ==
  IF neg THEN -(BToInt(s.q) + (IF s.sticky THEN 1 ELSE 0)) ELSE BToInt(s.q)

\* Math.floor, as an integer
FFloor(x) ==
  IF x.m = <<>> THEN 0
  ELSE IF x.e >= 0 THEN (IF x.neg THEN -1 ELSE 1) * BToInt(BShl(x.m, x.e))
  ELSE FFloorOf(x.neg, BShr(x.m, -x.e))

\* the double denoted by the decimal literal n/d (0.7 is Lit(7, 10))
Lit(n, d) == FDivInt(FFromInt(n), d)

(***************************************************************************)
(* Math.random() and the expressions built on it.  The float-valued        *)
(* expressions of the program are tabulated over their integer inputs.     *)
(***************************************************************************)
Rand == 0..(RandDen - 1)

\* Math.random(): the double k/RandDen
RandomValue == [k \in Rand |-> FDivInt(FFromInt(k), RandDen)]

\* the largest n of an expression Math.floor(Math.random() * n): 35 - 16 + 1, line 144
MaxSpan == 35 - 16 + 1

\* Math.floor(Math.random() * n) for an integer n
RandomFloor == [k \in Rand, n \in 0..MaxSpan |-> FFloor(FMul(RandomValue[k], FFromInt(n)))]

\* (Math.random() < 0.5 ? -1 : 1), lines 284 and 292
RandomSign == [k \in Rand |-> IF FCmp(RandomValue[k], Lit(5, 10)) < 0 THEN -1 ELSE 1]

Max2(a, b) == IF a > b THEN a ELSE b
Min2(a, b) == IF a < b THEN a ELSE b
MinOf(S) == CHOOSE v \in S : \A w \in S : v <= w

(***************************************************************************)
(* Scout skill profiles: a mapping of some of the six skill names to       *)
(* integers; a missing key reads as 0 (scoutSkills.key || 0).              *)
(***************************************************************************)
SkillValues == 0..MaxSkill

Skill(scoutSkills, key) == IF key \in DOMAIN scoutSkills THEN scoutSkills[key] ELSE 0

\* skill / 10, the "0-1 scale" of lines 200, 202, 239, 260-272
SkillImpact == [v \in SkillValues |-> FDivInt(FFromInt(v), 10)]

(***************************************************************************)
(* generatePlayerName, lines 88-121.  firstNames and lastNames are object  *)
(* literals, so firstNames[region] also finds the properties every object  *)
(* inherits from Object.prototype: for such a region the looked-up value   *)
(* is a function (or the prototype object), which is truthy, so the        *)
(* `|| firstNames['england']` default is not taken and indexing it gives   *)
(* undefined.                                                              *)
(***************************************************************************)
firstNames ==
  [england   |-> <<"Harry", "John", "James", "Adam", "Jack", "Thomas", "William">>,
   spain     |-> <<"Javier", "Carlos", "Antonio", "Miguel", "David", "Juan", "Sergio">>,
   germany   |-> <<"Hans", "Thomas", "Franz", "Lukas", "Felix", "Jonas", "Paul">>,
   italy     |-> <<"Marco", "Antonio", "Giuseppe", "Andrea", "Federico", "Mario", "Alessandro">>,
   france    |-> <<"Jean", "Antoine", "Pierre", "Nicolas", "Paul", "Hugo", "Louis">>,
   brazil    |-> <<"Carlos", "Rafael", "Gustavo", "Roberto", "Thiago", "Gabriel", "Lucas">>,
   argentina |-> <<"Lionel", "Diego", "Sergio", "Juan", "Gabriel", "Nicolas", "Roberto">>]

lastNames ==
  [england   |-> <<"Smith", "Jones", "Williams", "Brown", "Taylor", "Davies", "Wilson">>,
   spain     |-> <<"Garcia", "Rodriguez", "Fernandez", "Lopez", "Martinez", "Sanchez", "Perez">>,
   germany   |-> <<"Müller", "Schmidt", "Schneider", "Fischer", "Weber", "Meyer", "Wagner">>,
   italy     |-> <<"Rossi", "Russo", "Ferrari", "Esposito", "Bianchi", "Romano", "Colombo">>,
   france    |-> <<"Martin", "Bernard", "Dubois", "Thomas", "Robert", "Richard", "Petit">>,
   brazil    |-> <<"Silva", "Santos", "Oliveira", "Souza", "Costa", "Pereira", "Almeida">>,
   argentina |-> <<"Gonzalez", "Rodriguez", "Fernandez", "Lopez", "Martinez", "Garcia", "Sanchez">>]

\* property names every object literal inherits from Object.prototype
ObjectPrototypeKeys == {"constructor", "toString", "valueOf", "hasOwnProperty", "__proto__"}

\* table[key] of an object literal whose own properties are arrays
PropertyOf(table, key) ==
  IF key \in DOMAIN table THEN [kind |-> "array", items |-> table[key]]
  ELSE IF key \in ObjectPrototypeKeys THEN [kind |-> "inherited", items |-> <<>>]
  ELSE [kind |-> "undefined", items |-> <<>>]

\* table[region] || table['england'], lines 114-115
RegionNames(table, region) ==
  LET found == PropertyOf(table, region)
  IN  IF found.kind = "undefined" THEN PropertyOf(table, "england") ELSE found

\* list[Math.floor(Math.random() * list.length)] inside a template literal, lines 117-120
PickName(list, k) ==
  IF list.kind = "array" THEN list.items[RandomFloor[k, Len(list.items)] + 1]
  ELSE "undefined"

generatePlayerName(region, rnd) ==
  LET regionFirstNames == RegionNames(firstNames, region)
      regionLastNames  == RegionNames(lastNames, region)
      firstName == PickName(regionFirstNames, rnd[1])
      lastName  == PickName(regionLastNames, rnd[2])
  IN  firstName \o " " \o lastName

(***************************************************************************)
(* generatePlayerAge, lines 124-145.                                       *)
(***************************************************************************)
ageRanges ==
  << [min |-> 16, max |-> 19, weight |-> Lit(4, 10)],
     [min |-> 20, max |-> 23, weight |-> Lit(3, 10)],
     [min |-> 24, max |-> 27, weight |-> Lit(2, 10)],
     [min |-> 28, max |-> 35, weight |-> Lit(1, 10)] >>

\* weightSum after i iterations of the loop, lines 134-137
weightSum[i \in 0..4] == IF i = 0 THEN FZero ELSE FAdd(weightSum[i - 1], ageRanges[i].weight)

\* random <= weightSum in iteration i, line 138
AgeRangeHit == [k \in Rand, i \in 1..4 |-> FCmp(RandomValue[k], weightSum[i]) <= 0]

\* the index of the range the loop of lines 134-141 returns from, 0 if it falls through
FirstHit(hits) == IF hits = {} THEN 0 ELSE MinOf(hits)

selectedRange == [k \in Rand |-> FirstHit({i \in 1..4 : AgeRangeHit[k, i]})]

\* Math.floor(Math.random() * (max - min + 1)) + min, lines 139 and 144
AgeWithin(min, max, k) == RandomFloor[k, max - min + 1] + min

AgeInRange(i, k) ==
  IF i = 0 THEN AgeWithin(16, 35, k)
  ELSE AgeWithin(ageRanges[i].min, ageRanges[i].max, k)

generatePlayerAge(rnd) == AgeInRange(selectedRange[rnd[1]], rnd[2])

(***************************************************************************)
(* generatePlayerPosition, lines 148-157.                                  *)
(***************************************************************************)
\* positions with a sweeper in the place of the right back
positionsWithSweeper ==
  <<"GK", "CB", "SW", "LB", "CDM", "CM", "CAM", "RM", "LM", "RW", "LW", "ST", "CF">>

\* lines 149-154
positions == <<"GK", "CB", "RB", "LB", "CDM", "CM", "CAM", "RM", "LM", "RW", "LW", "ST", "CF">>

generatePlayerPosition(rnd) == positions[RandomFloor[rnd[1], Len(positions)] + 1]

Defenders   == {"CB", "RB", "LB"}
Midfielders == {"CDM", "CM", "CAM", "RM", "LM"}
Forwards    == {"RW", "LW", "ST", "CF"}

(***************************************************************************)
(* generatePlayerAttributes, lines 160-228.                                *)
(***************************************************************************)
baseRanges ==
  [technical |-> [min |-> 3, max |-> 9],
   physical  |-> [min |-> 3, max |-> 9],
   mental    |-> [min |-> 3, max |-> 9]]

positionBoosts ==
  [GK  |-> [technical |-> 0, physical |-> 1,  mental |-> 1],
   CB  |-> [technical |-> 0, physical |-> 2,  mental |-> 0],
   RB  |-> [technical |-> 1, physical |-> 1,  mental |-> 0],
   LB  |-> [technical |-> 1, physical |-> 1,  mental |-> 0],
   CDM |-> [technical |-> 1, physical |-> 1,  mental |-> 1],
   CM  |-> [technical |-> 2, physical |-> 0,  mental |-> 1],
   CAM |-> [technical |-> 3, physical |-> -1, mental |-> 1],
   RM  |-> [technical |-> 2, physical |-> 1,  mental |-> 0],
   LM  |-> [technical |-> 2, physical |-> 1,  mental |-> 0],
   RW  |-> [technical |-> 2, physical |-> 1,  mental |-> 0],
   LW  |-> [technical |-> 2, physical |-> 1,  mental |-> 0],
   ST  |-> [technical |-> 2, physical |-> 1,  mental |-> 0],
   CF  |-> [technical |-> 3, physical |-> 0,  mental |-> 0]]

\* Math.floor(talentSpottingImpact * 3) with talentSpottingImpact = skill / 10, lines 202, 220
talentBoost == [v \in SkillValues |-> FFloor(FMul(SkillImpact[v], FFromInt(3)))]

\* positionKnowledgeImpact * 2 with positionKnowledgeImpact = skill / 10, lines 195-200, 215
scoutAdjustment == [v \in SkillValues |-> FMul(SkillImpact[v], FFromInt(2))]

\* lines 186-192
scoutImpact(position, scoutSkills) ==
  [goalkeeper_knowledge |->
     IF position = "GK" THEN Skill(scoutSkills, "goalkeeper_knowledge") ELSE 0,
   defender_knowledge |->
     IF position \in Defenders THEN Skill(scoutSkills, "defender_knowledge") ELSE 0,
   midfielder_knowledge |->
     IF position \in Midfielders THEN Skill(scoutSkills, "midfielder_knowledge") ELSE 0,
   forward_knowledge |->
     IF position \in Forwards THEN Skill(scoutSkills, "forward_knowledge") ELSE 0,
   talent_spotting |-> Skill(scoutSkills, "talent_spotting")]

\* Math.max(goalkeeper, defender, midfielder, forward knowledge), lines 195-200
positionKnowledge(impact) ==
  Max2(Max2(impact.goalkeeper_knowledge, impact.defender_knowledge),
       Max2(impact.midfielder_knowledge, impact.forward_knowledge))

\* positionBoosts[position]?.[attr] || 0, line 208
boost(position, attr) ==
  IF position \in DOMAIN positionBoosts THEN positionBoosts[position][attr] ELSE 0

\* attributeMin without the position boost of line 211
attributeMinUnboosted(position, attr) == Max2(1, baseRanges[attr].min)

\* min after lines 211 and 216
attributeMin(position, attr) == Max2(1, baseRanges[attr].min + boost(position, attr))

\* attributeMax without the two Math.min(10, ...) of lines 217 and 221
attributeMaxUnclamped(position, scoutSkills, attr) ==
  baseRanges[attr].max + boost(position, attr)
  + talentBoost[scoutImpact(position, scoutSkills).talent_spotting]

\* attributeMax lowered by the whole points of the adjustment of line 215
attributeMaxNarrowed(position, scoutSkills, attr) ==
  Min2(10, Min2(10, baseRanges[attr].max + boost(position, attr))
           + talentBoost[scoutImpact(position, scoutSkills).talent_spotting])
  - FFloor(scoutAdjustment[positionKnowledge(scoutImpact(position, scoutSkills))])

\* max after lines 212, 217 and 221
attributeMax(position, scoutSkills, attr) ==
  Min2(10, Min2(10, baseRanges[attr].max + boost(position, attr))
           + talentBoost[scoutImpact(position, scoutSkills).talent_spotting])

\* const adjustment of line 215: computed from the position knowledge, used nowhere
adjustment(position, scoutSkills) ==
  scoutAdjustment[positionKnowledge(scoutImpact(position, scoutSkills))]

\* Math.floor(Math.random() * (max - min + 1)) + min, line 224
UniformInteger(min, max, k) == RandomFloor[k, max - min + 1] + min

\* one iteration of the loop of lines 207-225 for attribute attr, drawing k
AttributeValue(position, scoutSkills, attr, k) ==
  UniformInteger(attributeMin(position, attr), attributeMax(position, scoutSkills, attr), k)

generatePlayerAttributes(position, scoutSkills, rnd) ==
  [technical |-> AttributeValue(position, scoutSkills, "technical", rnd[1]),
   physical  |-> AttributeValue(position, scoutSkills, "physical", rnd[2]),
   mental    |-> AttributeValue(position, scoutSkills, "mental", rnd[3])]

(***************************************************************************)
(* generatePlayerPotential, lines 231-252.                                 *)
(***************************************************************************)
Ages == 16..MaxAge

\* ageFactor counting the years from 18 instead of 16
ageFactorFrom18 ==
  [age \in Ages |-> FMax(FZero, FSub(FFromInt(1), FDivInt(FFromInt(age - 18), 14)))]

\* Math.max(0, 1 - (age - 16) / 14), line 236
ageFactor ==
  [age \in Ages |-> FMax(FZero, FSub(FFromInt(1), FDivInt(FFromInt(age - 16), 14)))]

\* min after line 247
potentialMin == Max2(1, 5)

\* max after lines 243 and 248
potentialMax ==
  [age \in Ages |->
     FMin(FFromInt(10),
          FSub(FFromInt(9), FMul(FSub(FFromInt(1), ageFactor[age]), FFromInt(3))))]

\* potentialAssessmentSkill * 2, lines 239 and 246
rangeReduction == [v \in SkillValues |-> FMul(SkillImpact[v], FFromInt(2))]

\* Math.floor(Math.random() * (max - min + 1)) + min, line 251
PotentialDraw ==
  [age \in Ages, k \in Rand |->
     FFloor(FMul(RandomValue[k],
                 FAdd(FSub(potentialMax[age], FFromInt(potentialMin)), FFromInt(1))))
     + potentialMin]

\* const rangeReduction of line 246: computed from the assessment skill, used nowhere
potentialRangeReduction(scoutSkills) == rangeReduction[Skill(scoutSkills, "player_potential")]

generatePlayerPotential(age, scoutSkills, rnd) == PotentialDraw[age, rnd[1]]

(***************************************************************************)
(* generateReportText and getPositionComment, lines 310-386.               *)
(***************************************************************************)
\* [ c1 ? s1 : "", ... ].filter(Boolean): the non-empty strings, in order
RECURSIVE FilterNonEmpty(_)
FilterNonEmpty(list) ==
  IF list = <<>> THEN <<>>
  ELSE IF Head(list) = "" THEN FilterNonEmpty(Tail(list))
  ELSE <<Head(list)>> \o FilterNonEmpty(Tail(list))

\* list.join(" ")
RECURSIVE Join(_)
Join(list) ==
  IF list = <<>> THEN ""
  ELSE IF Len(list) = 1 THEN list[1]
  ELSE list[1] \o " " \o Join(Tail(list))

\* ageComments with the third band ending before 27
ageCommentsGapAt27(age) ==
  FilterNonEmpty(<<
    IF age < 20 THEN "Very young player with time to develop." ELSE "",
    IF age >= 20 /\ age <= 23 THEN "Young player entering their development prime." ELSE "",
    IF age > 23 /\ age < 27 THEN "Player in their prime years." ELSE "",
    IF age > 27 THEN "Experienced player with limited development potential." ELSE "" >>)

\* lines 312-317
ageComments(age) ==
  FilterNonEmpty(<<
    IF age < 20 THEN "Very young player with time to develop." ELSE "",
    IF age >= 20 /\ age <= 23 THEN "Young player entering their development prime." ELSE "",
    IF age > 23 /\ age <= 27 THEN "Player in their prime years." ELSE "",
    IF age > 27 THEN "Experienced player with limited development potential." ELSE "" >>)

\* AttrComment with the mid sentence from 5
AttrCommentMidFrom5(value, high, mid, low) ==
  IF value >= 8 THEN <<high>>
  ELSE IF value >= 5 THEN <<mid>>
  ELSE IF value <= 4 THEN <<low>>
  ELSE <<>>

\* one if/else-if chain of lines 322-344
AttrComment(value, high, mid, low) ==
  IF value >= 8 THEN <<high>>
  ELSE IF value >= 6 THEN <<mid>>
  ELSE IF value <= 4 THEN <<low>>
  ELSE <<>>

\* lines 320-344
attrComments(perceivedAttributes) ==
  AttrComment(perceivedAttributes.technical,
              "Technically exceptional.", "Good technical ability.",
              "Limited technical skills.")
  \o AttrComment(perceivedAttributes.physical,
                 "Physically dominant.", "Physically capable.",
                 "Physically needs development.")
  \o AttrComment(perceivedAttributes.mental,
                 "Exceptional mental attributes.", "Good mental approach.",
                 "Mental aspects need work.")

\* lines 347-353
potentialComments(perceivedPotential) ==
  FilterNonEmpty(<<
    IF perceivedPotential >= 9 THEN "Has world-class potential." ELSE "",
    IF perceivedPotential = 8 THEN "Could develop into an elite player." ELSE "",
    IF perceivedPotential = 7 THEN "Has the potential to be a very good player." ELSE "",
    IF perceivedPotential = 6 THEN "Decent potential to develop further." ELSE "",
    IF perceivedPotential <= 5 THEN "Limited potential for future growth." ELSE "" >>)

getPositionComment(position, attrs) ==
  IF position = "GK"
  THEN IF attrs.physical >= 7 THEN "Good physical presence in goal."
       ELSE "Could improve physical presence in goal."
  ELSE IF position \in Defenders
  THEN IF attrs.physical >= 7 THEN "Strong defensive attributes."
       ELSE "Has room to improve defensively."
  ELSE IF position \in Midfielders
  THEN IF attrs.technical >= 7 THEN "Technically gifted midfielder."
       ELSE "Midfield fundamentals could improve."
  ELSE IF attrs.technical >= 7 THEN "Shows good attacking qualities."
       ELSE "Attacking skills need development."

\* the array joined at lines 359-364
ReportComments(age, position, perceivedAttributes, perceivedPotential) ==
  ageComments(age)
  \o attrComments(perceivedAttributes)
  \o <<getPositionComment(position, perceivedAttributes)>>
  \o potentialComments(perceivedPotential)

\* generateReportText commenting on the true potential of the player
generateReportTextOfTruePotential(pl, perceivedAttributes, perceivedPotential) ==
  Join(ReportComments(pl.age, pl.position, perceivedAttributes, pl.potential))

generateReportText(pl, perceivedAttributes, perceivedPotential) ==
  Join(ReportComments(pl.age, pl.position, perceivedAttributes, perceivedPotential))

(***************************************************************************)
(* generateScoutingReport, lines 255-307.                                  *)
(***************************************************************************)
\* line 257
baseAccuracy == Lit(7, 10)

\* attributeAccuracy with the position knowledge subtracted
attributeAccuracyMinusKnowledge ==
  [talent \in SkillValues, knowledge \in SkillValues |->
     FMin(Lit(95, 100),
          FSub(FAdd(baseAccuracy, FMul(SkillImpact[talent], Lit(15, 100))),
               FMul(SkillImpact[knowledge], Lit(15, 100))))]

\* attributeAccuracy without the cap of Math.min
attributeAccuracyUncapped ==
  [talent \in SkillValues, knowledge \in SkillValues |->
     FAdd(FAdd(baseAccuracy, FMul(SkillImpact[talent], Lit(15, 100))),
          FMul(SkillImpact[knowledge], Lit(15, 100)))]

\* Math.min(0.95, baseAccuracy + talentSpottingImpact * 0.15 + positionKnowledgeImpact * 0.15)
attributeAccuracy ==
  [talent \in SkillValues, knowledge \in SkillValues |->
     FMin(Lit(95, 100),
          FAdd(FAdd(baseAccuracy, FMul(SkillImpact[talent], Lit(15, 100))),
               FMul(SkillImpact[knowledge], Lit(15, 100))))]

\* Math.min(0.95, baseAccuracy + potentialAssessmentImpact * 0.20 + talentSpottingImpact * 0.10)
potentialAccuracy ==
  [assessment \in SkillValues, talent \in SkillValues |->
     FMin(Lit(95, 100),
          FAdd(FAdd(baseAccuracy, FMul(SkillImpact[assessment], Lit(20, 100))),
               FMul(SkillImpact[talent], Lit(10, 100))))]

\* 10 - Math.floor(attributeAccuracy * 10), line 283
maxError ==
  [talent \in SkillValues, knowledge \in SkillValues |->
     10 - FFloor(FMul(attributeAccuracy[talent, knowledge], FFromInt(10)))]

\* 10 - Math.floor(potentialAccuracy * 10), line 291
maxPotentialError ==
  [assessment \in SkillValues, talent \in SkillValues |->
     10 - FFloor(FMul(potentialAccuracy[assessment, talent], FFromInt(10)))]

\* Math.floor(attributeAccuracy * 100), line 303
attributeConfidence ==
  [talent \in SkillValues, knowledge \in SkillValues |->
     FFloor(FMul(attributeAccuracy[talent, knowledge], FFromInt(100)))]

\* Math.floor(potentialAccuracy * 100), line 304
potentialConfidence ==
  [assessment \in SkillValues, talent \in SkillValues |->
     FFloor(FMul(potentialAccuracy[assessment, talent], FFromInt(100)))]

\* the skill read by lines 264-273, before the division by 10
positionKnowledgeSkill(position, scoutSkills) ==
  IF position = "GK" THEN Skill(scoutSkills, "goalkeeper_knowledge")
  ELSE IF position \in Defenders THEN Skill(scoutSkills, "defender_knowledge")
  ELSE IF position \in Midfielders THEN Skill(scoutSkills, "midfielder_knowledge")
  ELSE IF position \in Forwards THEN Skill(scoutSkills, "forward_knowledge")
  ELSE 0

\* NoiseError drawing the magnitude from 0..bound + 1
NoiseErrorWide(bound, kMagnitude, kSign) == RandomFloor[kMagnitude, bound + 2] * RandomSign[kSign]

\* Math.floor(Math.random() * (bound + 1)) * (Math.random() < 0.5 ? -1 : 1), lines 284, 292
NoiseError(bound, kMagnitude, kSign) == RandomFloor[kMagnitude, bound + 1] * RandomSign[kSign]

\* Perceived without the clamp to [1, 10]
PerceivedUnclamped(value, error) == value + error

\* Math.max(1, Math.min(10, value + error)), lines 287, 293
Perceived(value, error) == Max2(1, Min2(10, value + error))

\* the loop of lines 281-288 over technical, physical, mental, with draws rnd[1..6]
PerceivedAttributes(attributes, bound, rnd) ==
  [technical |-> Perceived(attributes.technical, NoiseError(bound, rnd[1], rnd[2])),
   physical  |-> Perceived(attributes.physical, NoiseError(bound, rnd[3], rnd[4])),
   mental    |-> Perceived(attributes.mental, NoiseError(bound, rnd[5], rnd[6]))]

\* lines 291-293, with draws rnd[7..8]
PerceivedPotential(potential, bound, rnd) ==
  Perceived(potential, NoiseError(bound, rnd[7], rnd[8]))

\* ReportOf with a confidence that reflects the realized error on technical
ReportOfRealizedError(pl, perceivedAttributes, perceivedPotential, talent, knowledge, assessment) ==
  [perceivedAttributes |-> perceivedAttributes,
   perceivedPotential  |-> perceivedPotential,
   reportText          |-> generateReportText(pl, perceivedAttributes, perceivedPotential),
   confidence          |-> [attributes |-> attributeConfidence[talent, knowledge]
                                           - IF perceivedAttributes.technical = pl.attributes.technical
                                             THEN 0 ELSE 1,
                            potential  |-> potentialConfidence[assessment, talent]]]

\* the object returned at lines 298-306
ReportOf(pl, perceivedAttributes, perceivedPotential, talent, knowledge, assessment) ==
  [perceivedAttributes |-> perceivedAttributes,
   perceivedPotential  |-> perceivedPotential,
   reportText          |-> generateReportText(pl, perceivedAttributes, perceivedPotential),
   confidence          |-> [attributes |-> attributeConfidence[talent, knowledge],
                            potential  |-> potentialConfidence[assessment, talent]]]

\* the report for the three skills the accuracies are computed from
ReportWith(pl, rnd, talent, knowledge, assessment) ==
  ReportOf(pl,
           PerceivedAttributes(pl.attributes, maxError[talent, knowledge], rnd),
           PerceivedPotential(pl.potential, maxPotentialError[assessment, talent], rnd),
           talent, knowledge, assessment)

generateScoutingReport(pl, scoutSkills, rnd) ==
  ReportWith(pl, rnd,
             Skill(scoutSkills, "talent_spotting"),
             positionKnowledgeSkill(pl.position, scoutSkills),
             Skill(scoutSkills, "player_potential"))

(***************************************************************************)
(* Requests.                                                               *)
(***************************************************************************)
Null == [null |-> TRUE]

\* skill profiles sent with requests
RequestProfiles ==
  { <<>>,
    [talent_spotting |-> MaxSkill],
    [talent_spotting |-> 4, player_potential |-> 6, goalkeeper_knowledge |-> 7,
     defender_knowledge |-> 2, midfielder_knowledge |-> MaxSkill, forward_knowledge |-> 0] }

RegionIds == {"", "england", "spain", "atlantis", "constructor"}

\* JSON bodies: objects with or without regionId and scoutSkills
BodyFields ==
  { <<>> }
  \cup { [regionId |-> r] : r \in RegionIds }
  \cup { [scoutSkills |-> sk] : sk \in RequestProfiles }
  \cup { [regionId |-> r, scoutSkills |-> sk] : r \in RegionIds, sk \in RequestProfiles }

\* a body that req.json() parses, or one it rejects
Bodies == { [json |-> FALSE, fields |-> <<>>] } \cup { [json |-> TRUE, fields |-> f] : f \in BodyFields }

Queries == { <<>>, [regionId |-> "england"], [position |-> "GK"] }

Requests ==
  { [auth |-> a, method |-> m, path |-> "generate", body |-> b, query |-> <<>>] :
      a \in BOOLEAN, m \in {"POST", "GET", "PUT"}, b \in Bodies }
  \cup
  { [auth |-> a, method |-> m, path |-> pth, body |-> [json |-> FALSE, fields |-> <<>>], query |-> q] :
      a \in BOOLEAN, m \in {"POST", "GET"}, pth \in {"getByRegion", "getByPosition", "other", ""},
      q \in Queries }

\* the strides of the random sequences drawn for a request
TapeStrides == {1, 5}

\* number of Math.random() calls of one generation: 1 + 2 + 3 + 1 + 2 + 8
DrawsPerGeneration == 17

\* the sequence k0, k0 + st, k0 + 2 st, ... of Math.random() outcomes
Tape(k0, st, n) == [i \in 1..n |-> (k0 + (i - 1) * st) % RandDen]

RequestTapes == { Tape(k0, st, DrawsPerGeneration) : k0 \in Rand, st \in TapeStrides }

(***************************************************************************)
(* handleError, handleSuccess, lines 40-55.                                *)
(***************************************************************************)
handleError(message, code) == [error |-> [message |-> message, code |-> code]]

handleSuccess(data) == [data |-> data, status |-> 200]

IsError(resp) == "error" \in DOMAIN resp

(***************************************************************************)
(* Initial state: a request has arrived at handleRequest.                  *)
(***************************************************************************)
\* the slots of the saves function for the requests it handles at the same time
MaxInFlight == 2
Slots == 1..MaxInFlight

Idle ==
  /\ player = Null
  /\ scoutingReport = Null
  /\ draws = 0
  /\ dbCalls = <<>>
  /\ sink = Null
  /\ response = Null
  /\ user = Null
  /\ saved_games = {}
  /\ nextId = 1
  /\ inflight = [s \in Slots |-> Null]

Init ==
  /\ pc = "handleRequest"
  /\ req \in Requests
  /\ Idle
  /\ call = Null
  /\ result = Null

(***************************************************************************)
(* handleRequest, lines 58-85: createSupabaseClient (21-37), getUser, the  *)
(* switch on the last path segment, and the called handler up to its first *)
(* await.                                                                  *)
(***************************************************************************)
\* what the handlers do before their first await, lines 390-392, 455-466, 486-497
Dispatch ==
  IF req.path = "generate"
  THEN IF req.method # "POST"
       THEN [pc |-> "done", response |-> handleError("Method not allowed", "METHOD_NOT_ALLOWED"),
             dbCalls |-> <<>>]
       ELSE [pc |-> "json", response |-> Null, dbCalls |-> <<>>]
  ELSE IF req.path \in {"getByRegion", "getByPosition"}
  THEN LET key == IF req.path = "getByRegion" THEN "regionId" ELSE "position"
           column == IF req.path = "getByRegion" THEN "region_id" ELSE "position"
       IN  IF req.method # "GET"
           THEN [pc |-> "done", response |-> handleError("Method not allowed", "METHOD_NOT_ALLOWED"),
                 dbCalls |-> <<>>]
           ELSE IF (IF key \in DOMAIN req.query THEN req.query[key] = "" ELSE TRUE)
           THEN [pc |-> "done",
                 response |-> handleError(IF key = "regionId" THEN "Region ID is required"
                                          ELSE "Position is required", "MISSING_FIELDS"),
                 dbCalls |-> <<>>]
           ELSE [pc |-> "select", response |-> Null,
                 dbCalls |-> << [op |-> "select", table |-> "generated_players",
                                column |-> column, value |-> req.query[key]] >>]
  ELSE [pc |-> "done", response |-> handleError("Invalid endpoint", "INVALID_ENDPOINT"),
        dbCalls |-> <<>>]

\* lines 22-25: no Authorization header, createSupabaseClient throws
MissingAuthorization ==
  /\ pc = "handleRequest"
  /\ ~req.auth
  /\ pc' = "done"
  /\ response' = handleError("Missing Authorization header", "AUTH_ERROR")
  /\ UNCHANGED <<req, player, scoutingReport, draws, dbCalls, sink, user, call, result>>
  /\ UNCHANGED savesVars

\* lines 62-66: getUser gives an error or no user
Unauthorized ==
  /\ pc = "handleRequest"
  /\ req.auth
  /\ pc' = "done"
  /\ response' = handleError("Unauthorized", "UNAUTHORIZED")
  /\ UNCHANGED <<req, player, scoutingReport, draws, dbCalls, sink, user, call, result>>
  /\ UNCHANGED savesVars

\* lines 62, 82-84: getUser rejects
AuthenticationFails ==
  /\ pc = "handleRequest"
  /\ req.auth
  /\ pc' = "done"
  /\ response' = handleError("Authentication error", "AUTH_ERROR")
  /\ UNCHANGED <<req, player, scoutingReport, draws, dbCalls, sink, user, call, result>>
  /\ UNCHANGED savesVars

\* lines 62-81: getUser gives a user; the endpoint handler starts
Authenticated ==
  /\ pc = "handleRequest"
  /\ req.auth
  /\ user' = [id |-> "user-1"]
  /\ pc' = Dispatch.pc
  /\ response' = Dispatch.response
  /\ dbCalls' = Dispatch.dbCalls
  /\ UNCHANGED <<req, player, scoutingReport, draws, sink, call, result>>
  /\ UNCHANGED savesVars

(***************************************************************************)
(* handleGeneratePlayer, lines 389-451.                                    *)
(***************************************************************************)
\* line 396 rejects: the body is not JSON; caught at line 447
BodyUnreadable ==
  /\ pc = "json"
  /\ ~req.body.json
  /\ pc' = "done"
  /\ response' = handleError("Failed to generate player", "INTERNAL_ERROR")
  /\ UNCHANGED <<req, player, scoutingReport, draws, dbCalls, sink, user, call, result>>
  /\ UNCHANGED savesVars

\* RegionIdMissing that accepts an empty regionId
RegionIdAbsent(fields) == "regionId" \notin DOMAIN fields

\* `!regionId` of line 398: undefined or the empty string
RegionIdMissing(fields) == IF "regionId" \in DOMAIN fields THEN fields.regionId = "" ELSE TRUE

\* lines 396-400
MissingRegionId ==
  /\ pc = "json"
  /\ req.body.json
  /\ RegionIdMissing(req.body.fields)
  /\ pc' = "done"
  /\ response' = handleError("Region ID is required", "MISSING_FIELDS")
  /\ UNCHANGED <<req, player, scoutingReport, draws, dbCalls, sink, user, call, result>>
  /\ UNCHANGED savesVars

\* the object of lines 408-415 for the position and age of lines 403-404
PlayerOf(regionId, scoutSkills, rnd, position, age) ==
  [name       |-> generatePlayerName(regionId, SubSeq(rnd, 8, 9)),
   regionId   |-> regionId,
   age        |-> age,
   position   |-> position,
   attributes |-> generatePlayerAttributes(position, scoutSkills, SubSeq(rnd, 4, 6)),
   potential  |-> generatePlayerPotential(age, scoutSkills, SubSeq(rnd, 7, 7))]

\* lines 403-415; the draws are made in the order position, age, attributes, potential, name
GeneratedPlayer(regionId, scoutSkills, rnd) ==
  PlayerOf(regionId, scoutSkills, rnd,
           generatePlayerPosition(SubSeq(rnd, 1, 1)), generatePlayerAge(SubSeq(rnd, 2, 3)))

\* InsertRecord storing what the scout perceived in place of the true values
InsertRecordOfPerceived(pl, report) ==
  [name            |-> pl.name,
   region_id       |-> pl.regionId,
   age             |-> pl.age,
   position        |-> pl.position,
   attributes      |-> report.perceivedAttributes,
   potential       |-> report.perceivedPotential,
   scouting_report |-> report]

\* the argument of insert, lines 423-431
InsertRecord(pl, report) ==
  [name            |-> pl.name,
   region_id       |-> pl.regionId,
   age             |-> pl.age,
   position        |-> pl.position,
   attributes      |-> pl.attributes,
   potential       |-> pl.potential,
   scouting_report |-> report]

\* const { regionId, scoutSkills = {} } = await req.json(), line 396
ScoutSkillsOf(fields) ==
  IF "scoutSkills" \in DOMAIN fields THEN fields.scoutSkills ELSE <<>>

\* lines 408-433 once the player and the report exist
StoreAndInsert(pl, report) ==
  /\ player' = pl
  /\ scoutingReport' = report
  /\ dbCalls' = Append(dbCalls, [op |-> "insert", table |-> "generated_players",
                                record |-> InsertRecord(pl, report)])

\* line 418 and the insert that follows
GenerateAndInsert(pl, scoutSkills, rnd) ==
  StoreAndInsert(pl, generateScoutingReport(pl, scoutSkills, SubSeq(rnd, 10, 17)))

\* lines 396-433: the body is read, the player and the report are generated, the insert is issued
GeneratePlayer ==
  /\ pc = "json"
  /\ req.body.json
  /\ ~RegionIdMissing(req.body.fields)
  /\ \E rnd \in RequestTapes :
       GenerateAndInsert(GeneratedPlayer(req.body.fields.regionId,
                                         ScoutSkillsOf(req.body.fields), rnd),
                         ScoutSkillsOf(req.body.fields), rnd)
  /\ draws' = draws + DrawsPerGeneration
  /\ pc' = "insert"
  /\ UNCHANGED <<req, sink, response, user, call, result>>
  /\ UNCHANGED savesVars

\* the outcomes of the awaited insert(...).select().single(), line 421
InsertOutcomes ==
  { [kind |-> "row", data |-> [id |-> "stored-id"]],   \* { data: row, error: null }
    [kind |-> "error", data |-> Null],                 \* { data: null, error }
    [kind |-> "norow", data |-> Null],                 \* { data: null, error: null }
    [kind |-> "throws", data |-> Null] }               \* the promise rejects

\* data?.id || crypto.randomUUID(), line 443
PlayerId(outcome) == IF outcome.kind = "row" THEN outcome.data.id ELSE "local-uuid"

\* lines 435-450: the response once the insert has settled
GenerateResponse(outcome, pl, report) ==
  IF outcome.kind = "throws"
  THEN handleError("Failed to generate player", "INTERNAL_ERROR")
  ELSE handleSuccess([player |->
         [name           |-> pl.name,
          regionId       |-> pl.regionId,
          age            |-> pl.age,
          position       |-> pl.position,
          attributes     |-> pl.attributes,
          potential      |-> pl.potential,
          id             |-> PlayerId(outcome),
          scoutingReport |-> report]])

\* InsertSettles issuing the insert again when it gave an error
InsertSettlesAndRetries ==
  /\ pc = "insert"
  /\ \E outcome \in InsertOutcomes :
       /\ sink' = outcome
       /\ response' = GenerateResponse(outcome, player, scoutingReport)
       /\ IF outcome.kind = "error"
          THEN /\ dbCalls' = Append(dbCalls, dbCalls[Len(dbCalls)])
               /\ pc' = "insert"
          ELSE /\ dbCalls' = dbCalls
               /\ pc' = "done"
  /\ UNCHANGED <<req, player, scoutingReport, draws, user, call, result>>
  /\ UNCHANGED savesVars

InsertSettles ==
  /\ pc = "insert"
  /\ \E outcome \in InsertOutcomes :
       /\ sink' = outcome
       /\ response' = GenerateResponse(outcome, player, scoutingReport)
  /\ pc' = "done"
  /\ UNCHANGED <<req, player, scoutingReport, draws, dbCalls, user, call, result>>
  /\ UNCHANGED savesVars

(***************************************************************************)
(* handleGetPlayersByRegion and handleGetPlayersByPosition, lines 454-509, *)
(* after the select was issued.  The table holds no row of an earlier      *)
(* request.                                                                *)
(***************************************************************************)
SelectOutcomes ==
  { [kind |-> "rows", data |-> <<>>],
    [kind |-> "error", data |-> Null],
    [kind |-> "throws", data |-> Null] }

SelectResponse(outcome, path) ==
  IF outcome.kind = "throws"
  THEN handleError(IF path = "getByRegion" THEN "Failed to get players by region"
                   ELSE "Failed to get players by position", "INTERNAL_ERROR")
  ELSE IF outcome.kind = "error"
  THEN handleError("select failed", "GET_PLAYERS_ERROR")
  ELSE handleSuccess([players |-> outcome.data])

SelectSettles ==
  /\ pc = "select"
  /\ \E outcome \in SelectOutcomes :
       /\ sink' = outcome
       /\ response' = SelectResponse(outcome, req.path)
  /\ pc' = "done"
  /\ UNCHANGED <<req, player, scoutingReport, draws, dbCalls, user, call, result>>
  /\ UNCHANGED savesVars

Next ==
  \/ MissingAuthorization
  \/ Unauthorized
  \/ AuthenticationFails
  \/ Authenticated
  \/ BodyUnreadable
  \/ MissingRegionId
  \/ GeneratePlayer
  \/ InsertSettles
  \/ SelectSettles

Spec == Init /\ [][Next]_vars

(***************************************************************************)
(* Function-level specifications: one call of a generator function.  The   *)
(* arguments and the outcomes of Math.random() during the call are chosen  *)
(* in the initial state; the action applies the function.                  *)
(***************************************************************************)
Positions == {positions[i] : i \in 1..Len(positions)}

\* a profile that gives every skill; the four role skills get different values
Profile(t, p, g) ==
  [talent_spotting      |-> t,
   player_potential     |-> p,
   goalkeeper_knowledge |-> g,
   defender_knowledge   |-> (g + 3) % (MaxSkill + 1),
   midfielder_knowledge |-> (g + 5) % (MaxSkill + 1),
   forward_knowledge    |-> (g + 7) % (MaxSkill + 1)]

GeneratorProfiles ==
  { <<>>, [talent_spotting |-> MaxSkill] }
  \cup { Profile(t, p, g) : t \in SkillValues, p \in {0, MaxSkill}, g \in {0, MaxSkill} }

\* region ids: the keys of the name tables, unknown regions, inherited property names
NameRegions ==
  DOMAIN firstNames
  \cup {"", "atlantis", "England", "constructor", "toString", "__proto__"}

Tapes(n) == { Tape(k0, st, n) : k0 \in Rand, st \in TapeStrides }

\* the calls of the five generators
GeneratorCall ==
  \/ \E p \in Positions, sk \in GeneratorProfiles, rnd \in Tapes(3) :
       call = [fn |-> "generatePlayerAttributes", position |-> p, scoutSkills |-> sk,
               rnd |-> rnd]
  \/ \E a \in Ages, sk \in GeneratorProfiles, k \in Rand :
       call = [fn |-> "generatePlayerPotential", age |-> a, scoutSkills |-> sk, rnd |-> <<k>>]
  \/ \E r \in NameRegions, k1 \in Rand, k2 \in Rand :
       call = [fn |-> "generatePlayerName", region |-> r, rnd |-> <<k1, k2>>]
  \/ \E k1 \in Rand, k2 \in Rand :
       call = [fn |-> "generatePlayerAge", rnd |-> <<k1, k2>>]
  \/ \E k \in Rand :
       call = [fn |-> "generatePlayerPosition", rnd |-> <<k>>]

Calling(fn) == pc = "call" /\ call.fn = fn

Return(value) ==
  /\ result' = value
  /\ pc' = "return"
  /\ UNCHANGED <<req, player, scoutingReport, draws, dbCalls, sink, response, user, call>>
  /\ UNCHANGED savesVars

CallAttributes ==
  /\ Calling("generatePlayerAttributes")
  /\ Return(generatePlayerAttributes(call.position, call.scoutSkills, call.rnd))

CallPotential ==
  /\ Calling("generatePlayerPotential")
  /\ Return(generatePlayerPotential(call.age, call.scoutSkills, call.rnd))

CallName ==
  /\ Calling("generatePlayerName")
  /\ Return(generatePlayerName(call.region, call.rnd))

CallAge ==
  /\ Calling("generatePlayerAge")
  /\ Return(generatePlayerAge(call.rnd))

CallPosition ==
  /\ Calling("generatePlayerPosition")
  /\ Return(generatePlayerPosition(call.rnd))

\* before the call: nothing of a request exists
BeforeCall ==
  /\ pc = "call"
  /\ result = Null
  /\ req = Null
  /\ Idle

InitGenerators == BeforeCall /\ GeneratorCall

NextGenerators ==
  \/ CallAttributes
  \/ CallPotential
  \/ CallName
  \/ CallAge
  \/ CallPosition

SpecGenerators == InitGenerators /\ [][NextGenerators]_vars

(***************************************************************************)
(* One call of generateScoutingReport.                                     *)
(***************************************************************************)
\* players whose attributes and potential take every value of 1..10 as v runs over 1..10
ReportPlayer(position, v) ==
  [name       |-> "Harry Smith",
   regionId   |-> "england",
   age        |-> 15 + 2 * v,
   position   |-> position,
   attributes |-> [technical |-> v, physical |-> 11 - v, mental |-> ((v + 4) % 10) + 1],
   potential  |-> ((v + 6) % 10) + 1]

ReportProfiles ==
  { <<>>, [talent_spotting |-> MaxSkill] }
  \cup { Profile(t, p, g) : t \in {0, 5, MaxSkill}, p \in {0, 5, MaxSkill}, g \in {0, MaxSkill} }

ReportCall(pl, scoutSkills, rnd) ==
  call = [fn |-> "generateScoutingReport", player |-> pl, scoutSkills |-> scoutSkills,
          rnd |-> rnd]

CallScoutingReport ==
  /\ Calling("generateScoutingReport")
  /\ Return(generateScoutingReport(call.player, call.scoutSkills, call.rnd))

InitReport ==
  /\ BeforeCall
  /\ \E p \in Positions, v \in 1..10, sk \in ReportProfiles, rnd \in Tapes(8) :
       ReportCall(ReportPlayer(p, v), sk, rnd)

NextReport == CallScoutingReport

SpecReport == InitReport /\ [][NextReport]_vars

\* every value of talent_spotting and of each role skill, for one player per position
ConfidenceProfiles ==
  { Profile(t, p, g) : t \in SkillValues, p \in {0, MaxSkill}, g \in SkillValues }

InitConfidence ==
  /\ BeforeCall
  /\ \E p \in Positions, sk \in ConfidenceProfiles :
       ReportCall(ReportPlayer(p, 5), sk, Tape(3, 5, 8))

SpecConfidence == InitConfidence /\ [][NextReport]_vars

\* profiles that leave skills out, and the profile with every skill at the top
EdgeProfiles ==
  { <<>>, [talent_spotting |-> MaxSkill], [player_potential |-> MaxSkill],
    [forward_knowledge |-> MaxSkill], [talent_spotting |-> 0, player_potential |-> 0],
    [talent_spotting |-> MaxSkill, player_potential |-> MaxSkill,
     goalkeeper_knowledge |-> MaxSkill, defender_knowledge |-> MaxSkill,
     midfielder_knowledge |-> MaxSkill, forward_knowledge |-> MaxSkill] }

\* draws that give no noise on technical, and draws that give the largest noise, upwards
AccuracyTapes == { Tape(3, 5, 8), Tape(RandDen - 1, 0, 8) }

\* every value of talent_spotting, player_potential and each role skill, and the edge
\* profiles, for one player per position
InitAccuracy ==
  /\ BeforeCall
  /\ \E p \in Positions, rnd \in AccuracyTapes :
       \/ \E t \in SkillValues, a \in SkillValues, g \in SkillValues :
            ReportCall(ReportPlayer(p, 5), Profile(t, a, g), rnd)
       \/ \E sk \in EdgeProfiles : ReportCall(ReportPlayer(p, 5), sk, rnd)

SpecAccuracy == InitAccuracy /\ [][NextReport]_vars

(***************************************************************************)
(* One call of generateReportText, lines 310-365: the player, the perceived *)
(* attributes and the perceived potential are chosen in the initial state. *)
(***************************************************************************)
\* ages around the four bands of lines 312-317
TextAges == 10..(MaxAge + 5)

Perceptions == 1..10

\* the fields of the player that lines 310-386 never read
Identities ==
  { [name |-> "Harry Smith", regionId |-> "england",
     attributes |-> [technical |-> 3, physical |-> 3, mental |-> 3], potential |-> 5],
    [name |-> "Juan Garcia", regionId |-> "spain",
     attributes |-> [technical |-> 9, physical |-> 9, mental |-> 9], potential |-> 9] }

TextPlayer(identity, age, position) ==
  [name |-> identity.name, regionId |-> identity.regionId, age |-> age,
   position |-> position, attributes |-> identity.attributes,
   potential |-> identity.potential]

AttributeTriple(t, p, m) == [technical |-> t, physical |-> p, mental |-> m]

ReportTextCall(pl, perceivedAttributes, perceivedPotential) ==
  call = [fn |-> "generateReportText", player |-> pl,
          perceivedAttributes |-> perceivedAttributes,
          perceivedPotential |-> perceivedPotential]

\* every triple of perceived attributes for every position, and every age and perceived
\* potential for every position
InitReportText ==
  /\ BeforeCall
  /\ \E identity \in Identities, position \in Positions :
       \/ \E t \in Perceptions, p \in Perceptions, m \in Perceptions,
             age \in {19}, potential \in {5, 9} :
            ReportTextCall(TextPlayer(identity, age, position),
                           AttributeTriple(t, p, m), potential)
       \/ \E age \in TextAges, potential \in Perceptions,
             attrs \in {AttributeTriple(5, 5, 5), AttributeTriple(7, 7, 7),
                        AttributeTriple(8, 6, 4)} :
            ReportTextCall(TextPlayer(identity, age, position), attrs, potential)

CallReportText ==
  /\ Calling("generateReportText")
  /\ Return(generateReportText(call.player, call.perceivedAttributes,
                               call.perceivedPotential))

NextReportText == CallReportText

SpecReportText == InitReportText /\ [][NextReportText]_vars

(***************************************************************************)
(* The saves function, saves/index.ts.  Requests arrive in the slots; each *)
(* is handled by handleRequest (lines 58-89) and one of the five handlers, *)
(* one action per await.  The table enforces the row level security        *)
(* policies of saved_games: a statement sees and changes only the rows     *)
(* whose user_id is the user of the token.  The columns created_at and     *)
(* updated_at are left out.                                                *)
(***************************************************************************)
Users == {"u1", "u2"}

\* the number of rows the table gives an id to
MaxSaves == 2

\* the save ids a request names: those the table gives, and one it never gives
SaveIds == 1..(MaxSaves + 1)

NoBody == [json |-> FALSE, fields |-> <<>>]

JsonBodies(fieldSets) == { [json |-> TRUE, fields |-> f] : f \in fieldSets }

\* bodies of create requests, line 121
CreateFields ==
  { <<>>,
    [version |-> "v1", gameData |-> "g1"],
    [name |-> "", version |-> "v1", gameData |-> "g1", isAutoSave |-> TRUE],
    [name |-> "manual", version |-> "v1", gameData |-> "g1"],
    [name |-> "manual", version |-> "v2", gameData |-> "g2", isAutoSave |-> FALSE],
    [name |-> "auto", version |-> "v1", gameData |-> "g1", isAutoSave |-> TRUE],
    [name |-> "quick", version |-> "v2", gameData |-> "g2", isAutoSave |-> TRUE] }

\* bodies of update requests, line 187
UpdateFields ==
  { <<>>, [name |-> "renamed"], [id |-> 1, name |-> "renamed"] }
  \cup { [id |-> i, version |-> "v2", gameData |-> "g2"] : i \in SaveIds }

\* the id of a request that names the empty string
EmptyId == 0

\* query strings of delete and get requests, lines 240-241 and 285-286
IdQueries == { <<>> } \cup { [id |-> i] : i \in SaveIds \cup {EmptyId} }

SaveRequest(a, m, pth, b, q) == [auth |-> a, method |-> m, path |-> pth, body |-> b, query |-> q]

\* requests with the method their handler accepts
AcceptedRequests(a) ==
  { SaveRequest(a, "GET", "list", NoBody, <<>>) }
  \cup { SaveRequest(a, "POST", "create", b, <<>>) : b \in {NoBody} \cup JsonBodies(CreateFields) }
  \cup { SaveRequest(a, "PUT", "update", b, <<>>) : b \in {NoBody} \cup JsonBodies(UpdateFields) }
  \cup { SaveRequest(a, "DELETE", "delete", NoBody, q) : q \in IdQueries }
  \cup { SaveRequest(a, "GET", "get", NoBody, q) : q \in IdQueries }

\* requests with another method or another path
OtherRequests(a) ==
  { SaveRequest(a, "POST", "list", NoBody, <<>>),
    SaveRequest(a, "GET", "create", NoBody, <<>>),
    SaveRequest(a, "POST", "update", NoBody, <<>>),
    SaveRequest(a, "PATCH", "update", [json |-> TRUE, fields |-> [id |-> 1, name |-> "renamed"]], <<>>),
    SaveRequest(a, "GET", "delete", NoBody, [id |-> 1]),
    SaveRequest(a, "POST", "get", NoBody, [id |-> 1]),
    SaveRequest(a, "GET", "other", NoBody, <<>>),
    SaveRequest(a, "GET", "", NoBody, <<>>) }

\* requests without Authorization header: one of each handler, naming the first row
Unidentified ==
  { r \in AcceptedRequests(FALSE) :
      /\ r.body.json => r.body.fields \in {[name |-> "auto", version |-> "v1", gameData |-> "g1",
                                            isAutoSave |-> TRUE],
                                           [id |-> 1, name |-> "renamed"]}
      /\ r.query # <<>> => r.query.id = 1 }
  \cup { SaveRequest(FALSE, "GET", "other", NoBody, <<>>) }

SaveRequests == AcceptedRequests(TRUE) \cup OtherRequests(TRUE) \cup Unidentified

\* `!x` for a field of a parsed body or a query parameter: undefined or the empty string
Falsy(fields, key) == IF key \in DOMAIN fields THEN fields[key] = "" ELSE TRUE

\* `!id` of lines 189, 243 and 288: undefined, null or the empty string
NoId(fields) == IF "id" \in DOMAIN fields THEN fields.id = EmptyId ELSE TRUE

\* `isAutoSave` of line 128 and `isAutoSave || false` of line 164
IsAutoSave(fields) == IF "isAutoSave" \in DOMAIN fields THEN fields.isAutoSave ELSE FALSE

\* what an awaited database call gives: { data, error: null }, { data: null, error },
\* or a rejected promise
DbOutcomes == {"ok", "error", "throws"}

\* the message of the error of a failed database call
DbMessage == "database error"

\* the policies of saved_games, players/index.ts lines 663-680: auth.uid() = user_id
Visible(uid) == { row \in saved_games : row.user_id = uid }

\* the row a request being handled is in
Handling(s, pth, label) ==
  /\ inflight[s] # Null
  /\ inflight[s].pc = label
  /\ inflight[s].req.path = pth

\* the handler returns resp
Finish(s, resp) ==
  inflight' = [inflight EXCEPT ![s].pc = "done", ![s].response = resp]

\* the handler issues the database call op and awaits it at label
Await(s, label, op) ==
  inflight' = [inflight EXCEPT ![s].pc = label, ![s].calls = Append(@, op)]

\* a request arrives at serve, line 314
SaveArrives(s) ==
  /\ inflight[s] = Null
  /\ \E r \in SaveRequests :
       inflight' = [inflight EXCEPT ![s] =
                      [req |-> r, pc |-> "handleRequest", user |-> Null,
                       existing |-> Null, calls |-> <<>>, response |-> Null]]
  /\ UNCHANGED <<saved_games, nextId>>

\* lines 22-25 and 86-88: no Authorization header
SaveMissingAuthorization(s) ==
  /\ Handling(s, inflight[s].req.path, "handleRequest")
  /\ ~inflight[s].req.auth
  /\ Finish(s, handleError("Missing Authorization header", "AUTH_ERROR"))
  /\ UNCHANGED <<saved_games, nextId>>

\* SaveUnauthorized going on to the handler of the path without a user
SaveUnauthorizedDispatches(s) ==
  /\ Handling(s, inflight[s].req.path, "handleRequest")
  /\ inflight[s].req.auth
  /\ inflight' = [inflight EXCEPT ![s].pc = IF @ = "handleRequest" THEN "json" ELSE @]
  /\ UNCHANGED <<saved_games, nextId>>

\* lines 62-66: getUser gives an error or no user
SaveUnauthorized(s) ==
  /\ Handling(s, inflight[s].req.path, "handleRequest")
  /\ inflight[s].req.auth
  /\ Finish(s, handleError("Unauthorized", "UNAUTHORIZED"))
  /\ UNCHANGED <<saved_games, nextId>>

\* lines 62 and 86-88: getUser rejects
SaveAuthenticationFails(s) ==
  /\ Handling(s, inflight[s].req.path, "handleRequest")
  /\ inflight[s].req.auth
  /\ Finish(s, handleError("Authentication error", "AUTH_ERROR"))
  /\ UNCHANGED <<saved_games, nextId>>

\* what the handler of the path does before its first await: the label it waits at and
\* the call it issued, or the response it returns
SaveDispatch(r) ==
  IF r.path = "list"
  THEN IF r.method # "GET"
       THEN [pc |-> "done", response |-> handleError("Method not allowed", "METHOD_NOT_ALLOWED")]
       ELSE [pc |-> "select", call |-> "select"]
  ELSE IF r.path = "create"
  THEN IF r.method # "POST"
       THEN [pc |-> "done", response |-> handleError("Method not allowed", "METHOD_NOT_ALLOWED")]
       ELSE [pc |-> "json"]
  ELSE IF r.path = "update"
  THEN IF r.method \notin {"PUT", "PATCH"}
       THEN [pc |-> "done", response |-> handleError("Method not allowed", "METHOD_NOT_ALLOWED")]
       ELSE [pc |-> "json"]
  ELSE IF r.path = "delete"
  THEN IF r.method # "DELETE"
       THEN [pc |-> "done", response |-> handleError("Method not allowed", "METHOD_NOT_ALLOWED")]
       ELSE IF NoId(r.query)
       THEN [pc |-> "done", response |-> handleError("Save ID is required", "MISSING_FIELDS")]
       ELSE [pc |-> "check", call |-> "select"]
  ELSE IF r.path = "get"
  THEN IF r.method # "GET"
       THEN [pc |-> "done", response |-> handleError("Method not allowed", "METHOD_NOT_ALLOWED")]
       ELSE IF NoId(r.query)
       THEN [pc |-> "done", response |-> handleError("Save ID is required", "MISSING_FIELDS")]
       ELSE [pc |-> "select", call |-> "select"]
  ELSE [pc |-> "done", response |-> handleError("Invalid endpoint", "INVALID_ENDPOINT")]

\* the slot once getUser gave the user uid and the handler ran to its first await
Dispatched(slot, uid, to) ==
  [req      |-> slot.req,
   pc       |-> to.pc,
   user     |-> [id |-> uid],
   existing |-> Null,
   calls    |-> IF "call" \in DOMAIN to THEN <<to.call>> ELSE <<>>,
   response |-> IF "response" \in DOMAIN to THEN to.response ELSE Null]

\* lines 62-85: getUser gives a user; the handler of the path starts
SaveAuthenticated(s) ==
  /\ Handling(s, inflight[s].req.path, "handleRequest")
  /\ inflight[s].req.auth
  /\ \E uid \in Users :
       inflight' = [inflight EXCEPT ![s] = Dispatched(inflight[s], uid, SaveDispatch(inflight[s].req))]
  /\ UNCHANGED <<saved_games, nextId>>

(***************************************************************************)
(* handleListSaves, lines 92-112.                                          *)
(***************************************************************************)
\* the columns selected at line 100
Listed(row) ==
  [id |-> row.id, name |-> row.name, version |-> row.version, is_auto_save |-> row.is_auto_save]

\* the rows of lines 98-102, for the user of the token and the userId of the filter
ListedRows(uid) == { Listed(row) : row \in { v \in Visible(uid) : v.user_id = uid } }

ListResponse(outcome, uid) ==
  IF outcome = "throws" THEN handleError("Failed to list saves", "INTERNAL_ERROR")
  ELSE IF outcome = "error" THEN handleError(DbMessage, "LIST_SAVES_ERROR")
  ELSE handleSuccess([saves |-> ListedRows(uid)])

ListSettles(s) ==
  /\ Handling(s, "list", "select")
  /\ \E outcome \in DbOutcomes : Finish(s, ListResponse(outcome, inflight[s].user.id))
  /\ UNCHANGED <<saved_games, nextId>>

(***************************************************************************)
(* handleCreateSave, lines 115-178.                                        *)
(***************************************************************************)
\* line 121 rejects; caught at line 175
CreateBodyUnreadable(s) ==
  /\ Handling(s, "create", "json")
  /\ ~inflight[s].req.body.json
  /\ Finish(s, handleError("Failed to create save", "INTERNAL_ERROR"))
  /\ UNCHANGED <<saved_games, nextId>>

\* line 123
CreateFieldsMissing(fields) ==
  Falsy(fields, "name") \/ Falsy(fields, "version") \/ Falsy(fields, "gameData")

\* lines 123-125
CreateMissingFields(s) ==
  /\ Handling(s, "create", "json")
  /\ inflight[s].req.body.json
  /\ CreateFieldsMissing(inflight[s].req.body.fields)
  /\ Finish(s, handleError("Missing required fields", "MISSING_FIELDS"))
  /\ UNCHANGED <<saved_games, nextId>>

\* lines 128-134 and 158-168: the lookup of the auto-save is issued, or the insert
CreateStarts(s) ==
  /\ Handling(s, "create", "json")
  /\ inflight[s].req.body.json
  /\ ~CreateFieldsMissing(inflight[s].req.body.fields)
  /\ IF IsAutoSave(inflight[s].req.body.fields)
     THEN Await(s, "lookup", "select")
     ELSE Await(s, "insert", "insert")
  /\ UNCHANGED <<saved_games, nextId>>

\* the rows of the select of lines 129-133
AutoSaves(uid) == { row \in Visible(uid) : row.user_id = uid /\ row.is_auto_save }

\* data of select('id') ... maybeSingle(): the row if there is exactly one, null otherwise
MaybeSingle(rows) ==
  IF Cardinality(rows) = 1 THEN [id |-> (CHOOSE row \in rows : TRUE).id] ELSE Null

\* existingAutoSave of line 129: the error of the call is not read
ExistingAutoSave(outcome, uid) == IF outcome = "ok" THEN MaybeSingle(AutoSaves(uid)) ELSE Null

\* the await of line 129 once it has settled to `found`: the update of lines 138-147
\* is issued, or the insert of lines 158-168
AfterLookup(s, found) ==
  IF found # Null
  THEN inflight' = [inflight EXCEPT ![s].pc = "autosave", ![s].existing = found,
                                    ![s].calls = Append(@, "update")]
  ELSE Await(s, "insert", "insert")

\* lines 129-136
CreateLookupSettles(s) ==
  /\ Handling(s, "create", "lookup")
  /\ \E outcome \in DbOutcomes :
       IF outcome = "throws"
       THEN Finish(s, handleError("Failed to create save", "INTERNAL_ERROR"))
       ELSE AfterLookup(s, ExistingAutoSave(outcome, inflight[s].user.id))
  /\ UNCHANGED <<saved_games, nextId>>

\* the rows an update or delete with .eq('id', id) reaches for the user of the token
RowsWithId(uid, id) == { row \in Visible(uid) : row.id = id }

\* the row with the columns of `changes` overwritten
Updated(row, changes) ==
  [column \in DOMAIN row |-> IF column \in DOMAIN changes THEN changes[column] ELSE row[column]]

\* the table after update(changes).eq('id', id)
TableUpdated(uid, id, changes) ==
  { IF row \in RowsWithId(uid, id) THEN Updated(row, changes) ELSE row : row \in saved_games }

\* the object given to update at lines 140-144
AutoSaveChanges(fields) == [version |-> fields.version, game_data |-> fields.gameData]

\* the response of an update(...).select().single() that settled with `outcome` on `rows`
UpdateResponse(outcome, rows, changes, failure, code) ==
  IF outcome = "throws" THEN handleError(failure, "INTERNAL_ERROR")
  ELSE IF outcome = "error" \/ Cardinality(rows) # 1 THEN handleError(DbMessage, code)
  ELSE handleSuccess([save |-> Updated(CHOOSE row \in rows : TRUE, changes)])

\* lines 138-153
CreateAutoSaveSettles(s) ==
  /\ Handling(s, "create", "autosave")
  /\ \E outcome \in DbOutcomes :
       /\ Finish(s, UpdateResponse(outcome, RowsWithId(inflight[s].user.id, inflight[s].existing.id),
                                   AutoSaveChanges(inflight[s].req.body.fields),
                                   "Failed to create save", "UPDATE_AUTOSAVE_ERROR"))
       /\ saved_games' = IF outcome = "ok"
                         THEN TableUpdated(inflight[s].user.id, inflight[s].existing.id,
                                           AutoSaveChanges(inflight[s].req.body.fields))
                         ELSE saved_games
  /\ UNCHANGED nextId

\* the row of lines 160-166 with the id the table gives it
NewRow(id, uid, fields) ==
  [id           |-> id,
   user_id      |-> uid,
   name         |-> fields.name,
   version      |-> fields.version,
   is_auto_save |-> IsAutoSave(fields),
   game_data    |-> fields.gameData]

\* lines 170-174 and 175-177
InsertResponse(outcome, row) ==
  IF outcome = "throws" THEN handleError("Failed to create save", "INTERNAL_ERROR")
  ELSE IF outcome = "error" THEN handleError(DbMessage, "CREATE_SAVE_ERROR")
  ELSE handleSuccess([save |-> row])

\* lines 158-174; the table gives no more than MaxSaves ids
CreateInsertSettles(s) ==
  /\ Handling(s, "create", "insert")
  /\ \E outcome \in DbOutcomes :
       /\ outcome = "ok" => nextId <= MaxSaves
       /\ Finish(s, InsertResponse(outcome, NewRow(nextId, inflight[s].user.id,
                                                   inflight[s].req.body.fields)))
       /\ saved_games' = IF outcome = "ok"
                         THEN saved_games \cup {NewRow(nextId, inflight[s].user.id,
                                                       inflight[s].req.body.fields)}
                         ELSE saved_games
       /\ nextId' = IF outcome = "ok" THEN nextId + 1 ELSE nextId

(***************************************************************************)
(* handleUpdateSave, lines 181-231.                                        *)
(***************************************************************************)
\* line 187 rejects; caught at line 228
UpdateBodyUnreadable(s) ==
  /\ Handling(s, "update", "json")
  /\ ~inflight[s].req.body.json
  /\ Finish(s, handleError("Failed to update save", "INTERNAL_ERROR"))
  /\ UNCHANGED <<saved_games, nextId>>

\* lines 189-191
UpdateMissingId(s) ==
  /\ Handling(s, "update", "json")
  /\ inflight[s].req.body.json
  /\ NoId(inflight[s].req.body.fields)
  /\ Finish(s, handleError("Save ID is required", "MISSING_FIELDS"))
  /\ UNCHANGED <<saved_games, nextId>>

\* lines 194-199: the select of the ownership check is issued
UpdateStarts(s) ==
  /\ Handling(s, "update", "json")
  /\ inflight[s].req.body.json
  /\ ~NoId(inflight[s].req.body.fields)
  /\ Await(s, "check", "select")
  /\ UNCHANGED <<saved_games, nextId>>

\* OwnedWithId without the filter on user_id and without the policies
AnyWithId(uid, id) == { row \in saved_games : row.id = id }

\* the rows of the select of lines 194-198 and 248-252, and of lines 292-296
OwnedWithId(uid, id) == { row \in Visible(uid) : row.id = id /\ row.user_id = uid }

\* the id a request names: in the body of an update, in the query of a delete or get
NamedId(r) == IF r.path = "update" THEN r.body.fields.id ELSE r.query.id

\* lines 201-207 and 255-261, with the catch of lines 228 and 273: the response of the
\* ownership check, or Null when the handler goes on
CheckResponse(outcome, rows, failure) ==
  IF outcome = "throws" THEN handleError(failure, "INTERNAL_ERROR")
  ELSE IF outcome = "error" THEN handleError(DbMessage, "FETCH_SAVE_ERROR")
  ELSE IF MaybeSingle(rows) = Null
  THEN handleError("Save not found or does not belong to user", "SAVE_NOT_FOUND")
  ELSE Null

\* the ownership check has settled: the handler returns, or issues the call op
AfterCheck(s, resp, label, op) ==
  IF resp # Null THEN Finish(s, resp) ELSE Await(s, label, op)

\* lines 194-221
UpdateCheckSettles(s) ==
  /\ Handling(s, "update", "check")
  /\ \E outcome \in DbOutcomes :
       AfterCheck(s, CheckResponse(outcome,
                                   OwnedWithId(inflight[s].user.id, NamedId(inflight[s].req)),
                                   "Failed to update save"),
                  "update", "update")
  /\ UNCHANGED <<saved_games, nextId>>

\* the field of the body written to a column
FieldOf(column) == IF column = "game_data" THEN "gameData" ELSE column

\* updateData of lines 210-213
UpdateData(fields) ==
  [column \in { c \in {"name", "version", "game_data"} : FieldOf(c) \in DOMAIN fields } |->
     fields[FieldOf(column)]]

\* lines 216-227
UpdateSettles(s) ==
  /\ Handling(s, "update", "update")
  /\ \E outcome \in DbOutcomes :
       /\ Finish(s, UpdateResponse(outcome,
                                   RowsWithId(inflight[s].user.id, NamedId(inflight[s].req)),
                                   UpdateData(inflight[s].req.body.fields),
                                   "Failed to update save", "UPDATE_SAVE_ERROR"))
       /\ saved_games' = IF outcome = "ok"
                         THEN TableUpdated(inflight[s].user.id, NamedId(inflight[s].req),
                                           UpdateData(inflight[s].req.body.fields))
                         ELSE saved_games
  /\ UNCHANGED nextId

(***************************************************************************)
(* handleDeleteSave, lines 234-276.                                        *)
(***************************************************************************)
\* lines 248-266
DeleteCheckSettles(s) ==
  /\ Handling(s, "delete", "check")
  /\ \E outcome \in DbOutcomes :
       AfterCheck(s, CheckResponse(outcome,
                                   OwnedWithId(inflight[s].user.id, NamedId(inflight[s].req)),
                                   "Failed to delete save"),
                  "delete", "delete")
  /\ UNCHANGED <<saved_games, nextId>>

\* lines 268-275
DeleteResponse(outcome) ==
  IF outcome = "throws" THEN handleError("Failed to delete save", "INTERNAL_ERROR")
  ELSE IF outcome = "error" THEN handleError(DbMessage, "DELETE_SAVE_ERROR")
  ELSE handleSuccess([message |-> "Save deleted successfully"])

\* lines 263-272
DeleteSettles(s) ==
  /\ Handling(s, "delete", "delete")
  /\ \E outcome \in DbOutcomes :
       /\ Finish(s, DeleteResponse(outcome))
       /\ saved_games' = IF outcome = "ok"
                         THEN saved_games \ RowsWithId(inflight[s].user.id, NamedId(inflight[s].req))
                         ELSE saved_games
  /\ UNCHANGED nextId

(***************************************************************************)
(* handleGetSave, lines 279-311.                                           *)
(***************************************************************************)
\* what the awaited select(...).single() of lines 292-297 gives: the row, an error (also
\* when no row matches), neither, or a rejection
GetOutcomes == {"ok", "error", "norow", "throws"}

\* lines 299-310
GetResponse(outcome, rows) ==
  IF outcome = "throws" THEN handleError("Failed to get save", "INTERNAL_ERROR")
  ELSE IF outcome = "norow"
  THEN handleError("Save not found or does not belong to user", "SAVE_NOT_FOUND")
  ELSE IF outcome = "error" \/ Cardinality(rows) # 1 THEN handleError(DbMessage, "GET_SAVE_ERROR")
  ELSE handleSuccess([save |-> CHOOSE row \in rows : TRUE])

GetSettles(s) ==
  /\ Handling(s, "get", "select")
  /\ \E outcome \in GetOutcomes :
       Finish(s, GetResponse(outcome, OwnedWithId(inflight[s].user.id, NamedId(inflight[s].req))))
  /\ UNCHANGED <<saved_games, nextId>>

\* lines 314-324: the response is sent
SaveResponds(s) ==
  /\ inflight[s] # Null
  /\ inflight[s].pc = "done"
  /\ inflight' = [inflight EXCEPT ![s] = Null]
  /\ UNCHANGED <<saved_games, nextId>>

\* a step of the request in slot s
SaveStep(s) ==
  \/ SaveArrives(s)
  \/ SaveMissingAuthorization(s)
  \/ SaveUnauthorized(s)
  \/ SaveAuthenticationFails(s)
  \/ SaveAuthenticated(s)
  \/ ListSettles(s)
  \/ CreateBodyUnreadable(s)
  \/ CreateMissingFields(s)
  \/ CreateStarts(s)
  \/ CreateLookupSettles(s)
  \/ CreateAutoSaveSettles(s)
  \/ CreateInsertSettles(s)
  \/ UpdateBodyUnreadable(s)
  \/ UpdateMissingId(s)
  \/ UpdateStarts(s)
  \/ UpdateCheckSettles(s)
  \/ UpdateSettles(s)
  \/ DeleteCheckSettles(s)
  \/ DeleteSettles(s)
  \/ GetSettles(s)
  \/ SaveResponds(s)

\* no request reaches the players function
InitSaves ==
  /\ pc = "saves"
  /\ req = Null
  /\ Idle
  /\ call = Null
  /\ result = Null

\* the requests are handled one at a time
NextSaves == SaveStep(1) /\ UNCHANGED playersVars

SpecSaves == InitSaves /\ [][NextSaves]_vars

(***************************************************************************)
(* Create requests handled concurrently.  Deno serves each request in its  *)
(* own call of handleRequest (line 314); the handlers share no state but   *)
(* the table, and a handler gives way to the others at each await, so the  *)
(* steps of the requests in the slots interleave at their database calls.  *)
(***************************************************************************)
\* the create requests: unreadable body, missing fields, a manual save and two auto-saves,
\* and one without Authorization header
CreateRequests ==
  { SaveRequest(TRUE, "POST", "create", b, <<>>) :
      b \in {NoBody}
            \cup JsonBodies({ [name |-> "", version |-> "v1", gameData |-> "g1", isAutoSave |-> TRUE],
                              [name |-> "manual", version |-> "v1", gameData |-> "g1"],
                              [name |-> "auto", version |-> "v1", gameData |-> "g1",
                               isAutoSave |-> TRUE],
                              [name |-> "quick", version |-> "v2", gameData |-> "g2",
                               isAutoSave |-> TRUE] }) }
  \cup { SaveRequest(FALSE, "POST", "create", NoBody, <<>>) }

\* a create request arrives at serve, line 314
CreateArrives(s) ==
  /\ inflight[s] = Null
  /\ \E r \in CreateRequests :
       inflight' = [inflight EXCEPT ![s] =
                      [req |-> r, pc |-> "handleRequest", user |-> Null,
                       existing |-> Null, calls |-> <<>>, response |-> Null]]
  /\ UNCHANGED <<saved_games, nextId>>

\* a step of the create request in slot s
CreateStep(s) ==
  \/ CreateArrives(s)
  \/ SaveMissingAuthorization(s)
  \/ SaveUnauthorized(s)
  \/ SaveAuthenticationFails(s)
  \/ SaveAuthenticated(s)
  \/ CreateBodyUnreadable(s)
  \/ CreateMissingFields(s)
  \/ CreateStarts(s)
  \/ CreateLookupSettles(s)
  \/ CreateAutoSaveSettles(s)
  \/ CreateInsertSettles(s)
  \/ SaveResponds(s)

\* the requests in the slots take their steps in any order
NextCreates == (\E s \in Slots : CreateStep(s)) /\ UNCHANGED playersVars

SpecCreates == InitSaves /\ [][NextCreates]_vars

(***************************************************************************)
(* The two functions side by side: a request reaches the players function, *)
(* or requests reach the saves function.                                   *)
(***************************************************************************)
InitFunctions == Init \/ InitSaves

NextFunctions ==
  \/ Next
  \/ pc = "saves" /\ NextSaves

SpecFunctions == InitFunctions /\ [][NextFunctions]_vars

(***************************************************************************)
(* Properties.                                                             *)
(***************************************************************************)
Returned(fn) == pc = "return" /\ call.fn = fn

InRange(v, lo, hi) == v \in lo..hi

\* C1: the attributes technical, physical and mental that generatePlayerAttributes
\* returns, and the potential that generatePlayerPotential returns, are integers in
\* [1,10], for every position, age, skill profile and outcome of the random source.
C1_AttributesAndPotentialInRange ==
  /\ Returned("generatePlayerAttributes") =>
       /\ DOMAIN result = {"technical", "physical", "mental"}
       /\ \A attr \in DOMAIN result : InRange(result[attr], 1, 10)
  /\ Returned("generatePlayerPotential") => InRange(result, 1, 10)

\* an attacking midfielder seen by a scout of full talent: the unclamped maximum of
\* technical is 9 + 3 + 3, the value returned is 10
C1_Witness ==
  /\ Returned("generatePlayerAttributes")
  /\ call.position = "CAM"
  /\ Skill(call.scoutSkills, "talent_spotting") = MaxSkill
  /\ result.technical = 10

\* C2: generateScoutingReport returns perceived attributes and a perceived potential in
\* [1,10], and confidence.attributes and confidence.potential as integers in [0,95].
C2_ReportInRange ==
  Returned("generateScoutingReport") =>
    /\ \A attr \in {"technical", "physical", "mental"} :
         InRange(result.perceivedAttributes[attr], 1, 10)
    /\ InRange(result.perceivedPotential, 1, 10)
    /\ InRange(result.confidence.attributes, 0, 95)
    /\ InRange(result.confidence.potential, 0, 95)

\* a true technical value of 10 with a noise of +1, at the accuracy ceiling
C2_Witness ==
  /\ Returned("generateScoutingReport")
  /\ call.player.attributes.technical = 10
  /\ RandomFloor[call.rnd[1], 2] = 1
  /\ RandomSign[call.rnd[2]] = 1
  /\ result.perceivedAttributes.technical = 10
  /\ result.confidence.attributes = 95

\* a request as the generation core receives it: the caller is authenticated and
\* handleGeneratePlayer has read the parameters from the body of a POST
GenerateRequest ==
  /\ req.path = "generate"
  /\ req.method = "POST"
  /\ req.body.json
  /\ user # Null

\* the body gives no regionId: the key is absent, or its value is the empty string
NoRegionId(fields) == IF "regionId" \in DOMAIN fields THEN fields.regionId = "" ELSE TRUE

\* C3: a generate request without regionId is answered with MISSING_FIELDS, no
\* Math.random() draw is made for it, nothing is generated and no database call is
\* issued or answered.
C3_MissingRegionIdBeforeGeneration ==
  (GenerateRequest /\ NoRegionId(req.body.fields)) =>
    /\ draws = 0
    /\ player = Null
    /\ scoutingReport = Null
    /\ dbCalls = <<>>
    /\ sink = Null
    /\ pc \in {"json", "done"}
    /\ pc = "done" => response = handleError("Region ID is required", "MISSING_FIELDS")

\* the request carried scout skills but no regionId, and was answered
C3_Witness ==
  /\ GenerateRequest
  /\ "regionId" \notin DOMAIN req.body.fields
  /\ "scoutSkills" \in DOMAIN req.body.fields
  /\ pc = "done"
  /\ response = handleError("Region ID is required", "MISSING_FIELDS")
  /\ draws = 0
  /\ dbCalls = <<>>

\* the insert of a generate request has settled without giving a row
PersistenceFailed ==
  /\ GenerateRequest
  /\ pc = "done"
  /\ sink # Null
  /\ sink.kind \in {"error", "norow", "throws"}

\* C4: when the insert fails (an error, no row, or a rejection) the response is a success
\* that carries the generated player, its report and a locally generated id.
C4_PersistenceFailureIsNotFatal ==
  PersistenceFailed =>
    /\ ~IsError(response)
    /\ response.status = 200
    /\ response.data.player.id = "local-uuid"
    /\ response.data.player.scoutingReport = scoutingReport
    /\ \A f \in DOMAIN player : response.data.player[f] = player[f]

\* the insert rejected after the player and the report were generated, and the request
\* was answered with an error
C4_Witness ==
  /\ PersistenceFailed
  /\ sink.kind = "throws"
  /\ player # Null
  /\ scoutingReport # Null
  /\ response = handleError("Failed to generate player", "INTERNAL_ERROR")

\* the lists the claim names for a region: its own if it is a key of the tables,
\* those of england otherwise
ClaimedRegion(region) == IF region \in DOMAIN firstNames THEN region ELSE "england"

\* C5: generatePlayerName returns "First Last" with First and Last from the lists of
\* the region if it is a key of the name tables, and from the england lists otherwise.
C5_NameFromRegionOrEngland ==
  Returned("generatePlayerName") =>
    \E i \in 1..Len(firstNames[ClaimedRegion(call.region)]),
       j \in 1..Len(lastNames[ClaimedRegion(call.region)]) :
      result = firstNames[ClaimedRegion(call.region)][i] \o " "
               \o lastNames[ClaimedRegion(call.region)][j]

\* a region that is no key of the tables, for which no england name is returned
C5_Witness ==
  /\ Returned("generatePlayerName")
  /\ call.region = "constructor"
  /\ result = "undefined undefined"

\* 14 times the bound 9 - 3 * (1 - ageFactor) of the claim, in exact arithmetic
ClaimedMaxTimes14(age) == IF age >= 30 THEN 14 * 6 ELSE 14 * 9 - 3 * (age - 16)

\* C6: the potential p returned for an age satisfies 5 <= p <= 9 - 3 * (1 - ageFactor),
\* ageFactor = max(0, 1 - (age - 16) / 14).
C6_PotentialWithinAgeBound ==
  Returned("generatePlayerPotential") =>
    /\ 5 <= result
    /\ 14 * result <= ClaimedMaxTimes14(call.age)

\* at age 23 the bound is 7.5 and the potential returned is 8
C6_Witness ==
  /\ Returned("generatePlayerPotential")
  /\ call.age = 23
  /\ result = 8

\* C7: at age 16 the potential lies in [5,9], at every age >= 30 in [5,6], whatever the
\* scout skills.
C7_PotentialAtAgeBoundaries ==
  Returned("generatePlayerPotential") =>
    /\ call.age = 16 => InRange(result, 5, 9)
    /\ call.age >= 30 => InRange(result, 5, 6)

\* the lowered ceiling is reached at 30 by a scout of full skill
C7_Witness ==
  /\ Returned("generatePlayerPotential")
  /\ call.age = 30
  /\ Skill(call.scoutSkills, "player_potential") = MaxSkill
  /\ result = 6

\* the bounds of the claim for boost b and talent_spotting t
ClaimedMin(b) == Max2(1, 3 + b)
ClaimedMax(b, t) == Min2(10, Min2(10, 9 + b) + ((3 * t) \div 10))

\* C8: for boost b of the position for an attribute and talent_spotting t, the value v
\* satisfies max(1, 3+b) <= v <= min(10, min(10, 9+b) + floor(3t/10)); for GK and the
\* empty profile technical is in [3,9], physical and mental in [4,10].
C8_AttributeBounds ==
  Returned("generatePlayerAttributes") =>
    /\ \A attr \in {"technical", "physical", "mental"} :
         InRange(result[attr],
                 ClaimedMin(positionBoosts[call.position][attr]),
                 ClaimedMax(positionBoosts[call.position][attr],
                            Skill(call.scoutSkills, "talent_spotting")))
    /\ (call.position = "GK" /\ call.scoutSkills = <<>>) =>
         /\ InRange(result.technical, 3, 9)
         /\ InRange(result.physical, 4, 10)
         /\ InRange(result.mental, 4, 10)

\* a centre-back (technical boost 0) seen with talent_spotting 4: the maximum 9 + 1
C8_Witness ==
  /\ Returned("generatePlayerAttributes")
  /\ call.position = "CB"
  /\ Skill(call.scoutSkills, "talent_spotting") = 4
  /\ result.technical = 10

Distance(a, b) == IF a >= b THEN a - b ELSE b - a

\* the skills generateScoutingReport reads for the call
CallTalent == Skill(call.scoutSkills, "talent_spotting")
CallKnowledge == positionKnowledgeSkill(call.player.position, call.scoutSkills)
CallAssessment == Skill(call.scoutSkills, "player_potential")

\* the bounds of the claim: 10 - floor(accuracy * 10) for the two accuracies
ClaimedAttributeError ==
  [talent \in SkillValues, knowledge \in SkillValues |->
     10 - FFloor(FMul(attributeAccuracy[talent, knowledge], FFromInt(10)))]

ClaimedPotentialError ==
  [assessment \in SkillValues, talent \in SkillValues |->
     10 - FFloor(FMul(potentialAccuracy[assessment, talent], FFromInt(10)))]

\* C9: each perceived attribute is within 10 - floor(attributeAccuracy * 10) of the true
\* value, the perceived potential within 10 - floor(potentialAccuracy * 10) of the true
\* potential, and neither bound is more than 3.
C9_NoiseBound ==
  Returned("generateScoutingReport") =>
    /\ \A attr \in {"technical", "physical", "mental"} :
         Distance(result.perceivedAttributes[attr], call.player.attributes[attr])
           <= ClaimedAttributeError[CallTalent, CallKnowledge]
    /\ Distance(result.perceivedPotential, call.player.potential)
         <= ClaimedPotentialError[CallAssessment, CallTalent]
    /\ ClaimedAttributeError[CallTalent, CallKnowledge] <= 3
    /\ ClaimedPotentialError[CallAssessment, CallTalent] <= 3

\* an unskilled scout misjudges an attribute by the full 3 points
C9_Witness ==
  /\ Returned("generateScoutingReport")
  /\ call.scoutSkills = <<>>
  /\ Distance(result.perceivedAttributes.technical, call.player.attributes.technical) = 3
  /\ Distance(result.perceivedPotential, call.player.potential) = 3

\* the profile with skill key set to v
WithSkill(scoutSkills, key, v) ==
  [k \in DOMAIN scoutSkills \cup {key} |-> IF k = key THEN v ELSE scoutSkills[k]]

\* the knowledge skill of the role bucket of a position, lines 264-273
RoleSkill(position) ==
  IF position = "GK" THEN "goalkeeper_knowledge"
  ELSE IF position \in Defenders THEN "defender_knowledge"
  ELSE IF position \in Midfielders THEN "midfielder_knowledge"
  ELSE "forward_knowledge"

\* confidence.attributes of the call repeated with skill key raised to v
ConfidenceWith(key, v) ==
  generateScoutingReport(call.player, WithSkill(call.scoutSkills, key, v),
                         call.rnd).confidence.attributes

\* C10: raising talent_spotting, or the knowledge skill of the player's role bucket, from
\* s to any s' >= s, everything else fixed, never decreases confidence.attributes.
C10_ConfidenceMonotone ==
  Returned("generateScoutingReport") =>
    \A key \in {"talent_spotting", RoleSkill(call.player.position)} :
      \A v \in SkillValues :
        v >= Skill(call.scoutSkills, key) =>
          ConfidenceWith(key, v) >= result.confidence.attributes

\* a call below the ceiling for which raising the role skill to the top raises the
\* confidence
C10_Witness ==
  /\ Returned("generateScoutingReport")
  /\ call.player.position = "ST"
  /\ CallKnowledge = 2
  /\ CallTalent = 4
  /\ result.confidence.attributes < 95
  /\ ConfidenceWith("forward_knowledge", MaxSkill) > result.confidence.attributes

\* the four knowledge skills of lines 264-273
KnowledgeKeys ==
  {"goalkeeper_knowledge", "defender_knowledge", "midfielder_knowledge", "forward_knowledge"}

\* the profile with the knowledge skills of the role buckets other than key set to v
OtherKnowledge(scoutSkills, key, v) ==
  [k \in DOMAIN scoutSkills \cup KnowledgeKeys |->
     IF k \in KnowledgeKeys \ {key} THEN v ELSE Skill(scoutSkills, k)]

\* the draws of a second report
OtherTapes == {Tape(0, 1, 8), Tape(RandDen - 1, 5, 8)}

\* second reports: the true values, the skills of the other buckets and the draws
SecondReports ==
  {<<1, 0, Tape(0, 1, 8)>>, <<10, MaxSkill, Tape(RandDen - 1, 5, 8)>>,
   <<10, 0, Tape(RandDen - 1, 5, 8)>>}

\* the confidence of a second report, for a player of position p with true values given
\* by v, the other knowledge skills at o and the draws rnd
SecondConfidence(p, v, o, rnd) ==
  generateScoutingReport(ReportPlayer(p, v),
                         OtherKnowledge(call.scoutSkills, RoleSkill(p), o),
                         rnd).confidence

\* C11: two reports for players of the same role bucket, made with the same
\* talent_spotting, player_potential and knowledge skill of that bucket, have the same
\* confidence.attributes and confidence.potential, whatever the draws, the true
\* attributes and potential and the knowledge skills of the other three buckets.
C11_ConfidenceIgnoresNoise ==
  Returned("generateScoutingReport") =>
    \A p \in Positions :
      RoleSkill(p) = RoleSkill(call.player.position) =>
        \A second \in SecondReports :
          SecondConfidence(p, second[1], second[2], second[3]) = result.confidence

\* a report whose noise moved technical and the potential, and a second report for a
\* player of the same bucket with other true values, draws and skills of the other buckets
C11_Witness ==
  /\ Returned("generateScoutingReport")
  /\ call.player.position = "CB"
  /\ result.perceivedAttributes.technical # call.player.attributes.technical
  /\ result.perceivedPotential # call.player.potential
  /\ Skill(call.scoutSkills, "forward_knowledge") # MaxSkill
  /\ call.rnd \notin OtherTapes
  /\ call.player # ReportPlayer("LB", 10)
  /\ SecondConfidence("LB", 10, MaxSkill, Tape(RandDen - 1, 5, 8)) = result.confidence
  /\ result.confidence.attributes < 95

\* the text for the same age, position and perceived values and another identity
TextFor(identity) ==
  generateReportText(TextPlayer(identity, call.player.age, call.player.position),
                     call.perceivedAttributes, call.perceivedPotential)

\* C12: generateReportText gives the same text for the same age, position, perceived
\* attributes and perceived potential, whatever the name, the regionId, the true
\* attributes and the true potential of the player.
C12_ReportTextDeterministic ==
  Returned("generateReportText") =>
    \A identity \in Identities : TextFor(identity) = result

\* a player of true potential 9 perceived at 5: the text is that of a player of true
\* potential 5 and another name, and speaks of the perceived potential
C12_Witness ==
  /\ Returned("generateReportText")
  /\ call.player.name = "Juan Garcia"
  /\ call.player.potential = 9
  /\ call.perceivedPotential = 5
  /\ call.player.age = 19
  /\ call.player.position = "GK"
  /\ call.perceivedAttributes = AttributeTriple(5, 5, 5)
  /\ \E identity \in Identities : identity.potential = 5 /\ TextFor(identity) = result
  /\ result = "Very young player with time to develop. "
              \o "Could improve physical presence in goal. "
              \o "Limited potential for future growth."

\* the sentences of the claim, by band
AgeSentences ==
  << "Very young player with time to develop.",
     "Young player entering their development prime.",
     "Player in their prime years.",
     "Experienced player with limited development potential." >>

PotentialSentences ==
  << "Has world-class potential.",
     "Could develop into an elite player.",
     "Has the potential to be a very good player.",
     "Decent potential to develop further.",
     "Limited potential for future growth." >>

\* the bands <20, 20-23, 24-27, >27 an age falls in
ClaimedAgeBands(age) ==
  { i \in 1..4 : \/ i = 1 /\ age < 20
                 \/ i = 2 /\ age >= 20 /\ age <= 23
                 \/ i = 3 /\ age >= 24 /\ age <= 27
                 \/ i = 4 /\ age > 27 }

\* the bands >=9, 8, 7, 6, <=5 a perceived potential falls in
ClaimedPotentialBands(potential) ==
  { i \in 1..5 : \/ i = 1 /\ potential >= 9
                 \/ i = 2 /\ potential = 8
                 \/ i = 3 /\ potential = 7
                 \/ i = 4 /\ potential = 6
                 \/ i = 5 /\ potential <= 5 }

\* the high, mid and low sentence of each attribute
AttributeSentences ==
  [technical |-> <<"Technically exceptional.", "Good technical ability.",
                   "Limited technical skills.">>,
   physical  |-> <<"Physically dominant.", "Physically capable.",
                   "Physically needs development.">>,
   mental    |-> <<"Exceptional mental attributes.", "Good mental approach.",
                   "Mental aspects need work.">>]

\* the two sentences of the position group of a position
PositionSentences(position) ==
  IF position = "GK"
  THEN {"Good physical presence in goal.", "Could improve physical presence in goal."}
  ELSE IF position \in {"CB", "RB", "LB"}
  THEN {"Strong defensive attributes.", "Has room to improve defensively."}
  ELSE IF position \in {"CDM", "CM", "CAM", "RM", "LM"}
  THEN {"Technically gifted midfielder.", "Midfield fundamentals could improve."}
  ELSE {"Shows good attacking qualities.", "Attacking skills need development."}

\* no comment, or one of the sentences of an attribute
Optional(sentences) == {<<>>} \cup {<<sentences[i]>> : i \in 1..Len(sentences)}

\* C13: the report text is the space-joined sequence of exactly one age-band comment,
\* then zero to three attribute comments in the order technical, physical, mental, then
\* exactly one position-group comment, then exactly one potential-band comment; the age
\* bands and the potential bands are exclusive and exhaustive; no empty sentence is
\* joined.
C13_ReportTextLayout ==
  Returned("generateReportText") =>
    /\ Cardinality(ClaimedAgeBands(call.player.age)) = 1
    /\ Cardinality(ClaimedPotentialBands(call.perceivedPotential)) = 1
    /\ \E a \in ClaimedAgeBands(call.player.age),
          q \in ClaimedPotentialBands(call.perceivedPotential),
          t \in Optional(AttributeSentences.technical),
          p \in Optional(AttributeSentences.physical),
          m \in Optional(AttributeSentences.mental),
          g \in PositionSentences(call.player.position) :
         result = Join(<<AgeSentences[a]>> \o t \o p \o m \o <<g>>
                       \o <<PotentialSentences[q]>>)

\* age 27 closes the third band, potential 6 has its own band, one attribute is silent
C13_Witness ==
  /\ Returned("generateReportText")
  /\ call.player.age = 27
  /\ call.player.position = "CM"
  /\ call.perceivedAttributes = AttributeTriple(8, 6, 4)
  /\ call.perceivedPotential = 6
  /\ result = "Player in their prime years. Technically exceptional. "
              \o "Physically capable. Mental aspects need work. "
              \o "Technically gifted midfielder. Decent potential to develop further."

\* the comment the claim gives for one perceived attribute
ClaimedAttrComment(attr, value) ==
  IF value >= 8 THEN <<AttributeSentences[attr][1]>>
  ELSE IF value \in {6, 7} THEN <<AttributeSentences[attr][2]>>
  ELSE IF value <= 4 THEN <<AttributeSentences[attr][3]>>
  ELSE <<>>

ClaimedAttrComments(perceivedAttributes) ==
  ClaimedAttrComment("technical", perceivedAttributes.technical)
  \o ClaimedAttrComment("physical", perceivedAttributes.physical)
  \o ClaimedAttrComment("mental", perceivedAttributes.mental)

\* C18: each perceived attribute gives the high sentence from 8, the mid sentence at 6
\* and 7, the low sentence up to 4 and no sentence at 5, independently of the others; the
\* number of attribute comments is the number of perceived attributes other than 5.
C18_AttributeBuckets ==
  Returned("generateReportText") =>
    /\ result = Join(ageComments(call.player.age)
                     \o ClaimedAttrComments(call.perceivedAttributes)
                     \o <<getPositionComment(call.player.position, call.perceivedAttributes)>>
                     \o potentialComments(call.perceivedPotential))
    /\ Len(ClaimedAttrComments(call.perceivedAttributes))
         = Cardinality({attr \in {"technical", "physical", "mental"} :
                          call.perceivedAttributes[attr] # 5})

\* technical 5 is silent between a high physical and a low mental comment
C18_Witness ==
  /\ Returned("generateReportText")
  /\ call.player.age = 19
  /\ call.player.position = "ST"
  /\ call.perceivedAttributes = AttributeTriple(5, 8, 4)
  /\ call.perceivedPotential = 9
  /\ result = "Very young player with time to develop. "
              \o "Physically dominant. Mental aspects need work. "
              \o "Attacking skills need development. Has world-class potential."

\* the calls made to the persistence sink so far
SinkCalls == Len(dbCalls)

\* C14: in a generate request the persistence sink is called at most once, only after
\* the player and then the report made from that player exist, with both as argument,
\* and it is not called again once it has answered, failure included.
C14_GenerateThenReportThenPersist ==
  req.path = "generate" =>
    /\ SinkCalls <= 1
    /\ SinkCalls = 1 =>
         /\ player # Null
         /\ scoutingReport # Null
         /\ draws = DrawsPerGeneration
         /\ scoutingReport.reportText
              = generateReportText(player, scoutingReport.perceivedAttributes,
                                   scoutingReport.perceivedPotential)
         /\ dbCalls[1] = [op |-> "insert", table |-> "generated_players",
                          record |-> InsertRecord(player, scoutingReport)]
    /\ SinkCalls = 0 => (player = Null /\ scoutingReport = Null /\ sink = Null)
    /\ sink # Null => (SinkCalls = 1 /\ pc = "done")

\* the insert answered with an error after the player and the report were generated,
\* and the request ended with that single call
C14_Witness ==
  /\ req.path = "generate"
  /\ pc = "done"
  /\ sink # Null
  /\ sink.kind = "error"
  /\ SinkCalls = 1
  /\ dbCalls[1].record.scouting_report = scoutingReport
  /\ dbCalls[1].record.name = player.name

\* the attributes of the call repeated with knowledge skill key at v
AttributesWith(key, v) ==
  generatePlayerAttributes(call.position, WithSkill(call.scoutSkills, key, v), call.rnd)

\* the potential of the call repeated with player_potential at v
PotentialWith(v) ==
  generatePlayerPotential(call.age, WithSkill(call.scoutSkills, "player_potential", v),
                          call.rnd)

AuthenticationErrors == {"AUTH_ERROR", "UNAUTHORIZED"}

\* the response is an error of the authentication gate
Rejected(resp) == IsError(resp) /\ resp.error.code \in AuthenticationErrors

\* the players function has run no handler for the request: nothing was drawn or
\* generated and no database call was made
NoPlayersHandler ==
  /\ pc \in {"handleRequest", "done"}
  /\ draws = 0
  /\ player = Null
  /\ scoutingReport = Null
  /\ dbCalls = <<>>
  /\ sink = Null
  /\ pc = "done" => Rejected(response)

\* the saves function has run no handler for the request of the slot
NoSavesHandler(slot) ==
  /\ slot.pc \in {"handleRequest", "done"}
  /\ slot.calls = <<>>
  /\ slot.existing = Null
  /\ slot.pc = "done" => Rejected(slot.response)

\* C16: in the players and saves functions no endpoint handler runs, so no player is
\* generated and no database row is read, inserted, updated or deleted, unless the request
\* carries an Authorization header and the identity lookup gives a user; every other
\* request is answered with AUTH_ERROR or UNAUTHORIZED.
C16_NoHandlerWithoutIdentity ==
  /\ req # Null =>
       /\ ~req.auth => user = Null
       /\ user = Null => NoPlayersHandler
  /\ \A s \in Slots :
       inflight[s] # Null =>
         /\ ~inflight[s].req.auth => inflight[s].user = Null
         /\ inflight[s].user = Null => NoSavesHandler(inflight[s])

\* a delete request for an existing row whose identity lookup failed: answered
\* UNAUTHORIZED, the row is still there
C16_Witness ==
  /\ inflight[1] # Null
  /\ inflight[1].req.path = "delete"
  /\ inflight[1].req.method = "DELETE"
  /\ inflight[1].req.auth
  /\ inflight[1].req.query = [id |-> 1]
  /\ inflight[1].user = Null
  /\ inflight[1].pc = "done"
  /\ inflight[1].response = handleError("Unauthorized", "UNAUTHORIZED")
  /\ \E row \in saved_games : row.id = 1

\* the request names the save id `id`
Names(r, id) ==
  IF r.path = "update" THEN r.body.json /\ ~NoId(r.body.fields) /\ r.body.fields.id = id
  ELSE IF r.path \in {"delete", "get"} THEN ~NoId(r.query) /\ r.query.id = id
  ELSE FALSE

\* the slot holds an update, delete or get request of an authenticated caller that names
\* a save id no row of the caller has: the row does not exist or belongs to another user
NotOwned(slot) ==
  /\ slot # Null
  /\ slot.user # Null
  /\ \E id \in SaveIds :
       /\ Names(slot.req, id)
       /\ ~\E row \in saved_games : row.id = id /\ row.user_id = slot.user.id

\* the request of the slot was answered with rows of the table
ReturnedRows(slot) ==
  IF slot.pc # "done" \/ IsError(slot.response) THEN {}
  ELSE IF slot.req.path = "list" THEN slot.response.data.saves
  ELSE IF slot.req.path = "delete" THEN {}
  ELSE {slot.response.data.save}

\* C17: an update, delete or get request naming a save id that does not exist or whose
\* user_id differs from the authenticated caller gets an error response and leaves
\* saved_games unchanged; the rows a request is answered with are rows of the caller.
C17_SavesOnlyForOwner ==
  /\ [][NotOwned(inflight[1]) =>
          /\ saved_games' = saved_games
          /\ inflight'[1] # Null =>
               /\ inflight'[1].pc \notin {"update", "delete"}
               /\ inflight'[1].pc = "done" => IsError(inflight'[1].response)]_vars
  /\ [](inflight[1] # Null =>
          \A shown \in ReturnedRows(inflight[1]) :
            \E row \in saved_games : row.id = shown.id /\ row.user_id = inflight[1].user.id)

\* u2 named the row of u1 in an update and was answered SAVE_NOT_FOUND
C17_Witness ==
  /\ inflight[1] # Null
  /\ inflight[1].req.path = "update"
  /\ inflight[1].pc = "done"
  /\ inflight[1].user = [id |-> "u2"]
  /\ inflight[1].req.body.json
  /\ inflight[1].req.body.fields = [id |-> 1, version |-> "v2", gameData |-> "g2"]
  /\ inflight[1].calls = <<"select">>
  /\ inflight[1].response
       = handleError("Save not found or does not belong to user", "SAVE_NOT_FOUND")
  /\ \E row \in saved_games : row.id = 1 /\ row.user_id = "u1" /\ row.version = "v1"

\* the auto-saves of a user
AutoSavesOf(uid) == { row \in saved_games : row.user_id = uid /\ row.is_auto_save }

\* the slot holds a create request with isAutoSave set that passed the field checks
AutoSaveCreate(slot) ==
  /\ slot # Null
  /\ slot.req.path = "create"
  /\ slot.pc \in {"lookup", "autosave", "insert", "done"}
  /\ slot.calls # <<>>
  /\ IsAutoSave(slot.req.body.fields)

\* C20: with requests handled one at a time each user has at most one saved game with
\* is_auto_save = true: a create request with isAutoSave set, made while the user has an
\* auto-save, inserts no row and overwrites version and game_data of that auto-save,
\* keeping its id.
C20_OneAutoSavePerUser ==
  /\ \A uid \in Users : Cardinality(AutoSavesOf(uid)) <= 1
  /\ AutoSaveCreate(inflight[1]) =>
       /\ inflight[1].pc = "insert" => AutoSavesOf(inflight[1].user.id) = {}
       /\ (inflight[1].pc = "done" /\ inflight[1].calls = <<"select", "update">>
           /\ ~IsError(inflight[1].response)) =>
            AutoSavesOf(inflight[1].user.id)
              = { [id           |-> inflight[1].existing.id,
                   user_id      |-> inflight[1].user.id,
                   name         |-> inflight[1].response.data.save.name,
                   version      |-> inflight[1].req.body.fields.version,
                   is_auto_save |-> TRUE,
                   game_data    |-> inflight[1].req.body.fields.gameData] }

\* u1 has two auto-saves after two create requests handled one after the other
C20_Witness ==
  /\ inflight[1] # Null
  /\ inflight[1].pc = "done"
  /\ inflight[1].req.path = "create"
  /\ inflight[1].calls = <<"select", "insert">>
  /\ ~IsError(inflight[1].response)
  /\ Cardinality(AutoSavesOf("u1")) = 2

\* the 13 positions of the claim
ClaimedPositions ==
  {"GK", "CB", "RB", "LB", "CDM", "CM", "CAM", "RM", "LM", "RW", "LW", "ST", "CF"}

\* C19: every player of a generate request has an integer age in [16,35] and one of the
\* 13 positions, in the stored player and in the response; generatePlayerAge gives an
\* age in [16,35] for every pair of draws, its fallback branch for every draw, and
\* generatePlayerPosition one of the 13 positions for every draw.
C19_AgeAndPositionInRange ==
  /\ player # Null =>
       /\ player.age \in 16..35
       /\ player.position \in ClaimedPositions
       /\ (pc = "done" /\ ~IsError(response)) =>
            /\ response.data.player.age = player.age
            /\ response.data.player.position = player.position
  /\ \A k1 \in Rand, k2 \in Rand : generatePlayerAge(<<k1, k2>>) \in 16..35
  /\ \A k \in Rand : AgeInRange(0, k) \in 16..35
  /\ \A k \in Rand : generatePlayerPosition(<<k>>) \in ClaimedPositions
  /\ Cardinality(ClaimedPositions) = 13

\* a striker of 28, from the last age range, was generated and returned
C19_Witness ==
  /\ pc = "done"
  /\ player # Null
  /\ ~IsError(response)
  /\ response.data.player.age = 28
  /\ response.data.player.position = "ST"
  /\ \E k1 \in Rand, k2 \in Rand :
       selectedRange[k1] = 4 /\ generatePlayerAge(<<k1, k2>>) = 35

\* the slot holds an auto-save create of uid whose lookup was followed by an insert that
\* gave the row with this id
InsertedAutoSave(slot, uid, id) ==
  /\ AutoSaveCreate(slot)
  /\ slot.pc = "done"
  /\ slot.user = [id |-> uid]
  /\ slot.calls = <<"select", "insert">>
  /\ ~IsError(slot.response)
  /\ slot.response.data.save.id = id

\* C21: also when create requests of one user are handled concurrently and interleave at
\* their database calls, no user ever has two saved games with is_auto_save = true, and a
\* request about to insert an auto-save does so only while the user has none.
C21_OneAutoSavePerUserConcurrently ==
  /\ \A uid \in Users : Cardinality(AutoSavesOf(uid)) <= 1
  /\ \A s \in Slots :
       (AutoSaveCreate(inflight[s]) /\ inflight[s].pc = "insert") =>
         AutoSavesOf(inflight[s].user.id) = {}

\* two auto-save creates of u1 in flight together on an empty table: each inserted
\* a row, and both rows are auto-saves of u1
C21_Witness ==
  /\ InsertedAutoSave(inflight[1], "u1", 1)
  /\ InsertedAutoSave(inflight[2], "u1", 2)
  /\ nextId = 3
  /\ Cardinality(AutoSavesOf("u1")) = 2

\* a generate request was answered with a payload
GenerateAnswered ==
  /\ GenerateRequest
  /\ pc = "done"
  /\ ~IsError(response)
  /\ "player" \in DOMAIN response.data

\* C22: when a generate request is answered with a payload, one record was handed to the
\* persistence sink, and its name, region_id, age, position, attributes, potential and
\* scouting_report equal name, regionId, age, position, attributes, potential and
\* scoutingReport of the payload; when the sink gave a row, the id of the payload is the
\* id of that row.
C22_InsertEqualsResponse ==
  GenerateAnswered =>
    /\ Len(dbCalls) = 1
    /\ dbCalls[1].op = "insert"
    /\ dbCalls[1].record.name = response.data.player.name
    /\ dbCalls[1].record.region_id = response.data.player.regionId
    /\ dbCalls[1].record.age = response.data.player.age
    /\ dbCalls[1].record.position = response.data.player.position
    /\ dbCalls[1].record.attributes = response.data.player.attributes
    /\ dbCalls[1].record.potential = response.data.player.potential
    /\ dbCalls[1].record.scouting_report = response.data.player.scoutingReport
    /\ sink.kind = "row" => response.data.player.id = sink.data.id

\* the sink gave a row for a player whose report differs from the true values, and the
\* payload carries the id of the row
C22_Witness ==
  /\ GenerateAnswered
  /\ sink.kind = "row"
  /\ response.data.player.id = "stored-id"
  /\ response.data.player.regionId = "spain"
  /\ dbCalls[1].record.region_id = "spain"
  /\ response.data.player.scoutingReport.perceivedPotential # response.data.player.potential
  /\ response.data.player.scoutingReport.perceivedAttributes # response.data.player.attributes

\* x lies in [0.70, 0.95]
InClaimedAccuracyRange(x) == FCmp(x, Lit(70, 100)) >= 0 /\ FCmp(x, Lit(95, 100)) <= 0

\* the pairs of skills for which the accuracy lies in [0.70, 0.95]
AttributeAccuracyInRange ==
  [talent \in SkillValues, knowledge \in SkillValues |->
     InClaimedAccuracyRange(attributeAccuracy[talent, knowledge])]

PotentialAccuracyInRange ==
  [assessment \in SkillValues, talent \in SkillValues |->
     InClaimedAccuracyRange(potentialAccuracy[assessment, talent])]

\* the six skills of a profile
SkillKeys == {"talent_spotting", "player_potential"} \cup KnowledgeKeys

\* every skill of the call is 0 or missing
Unskilled == \A key \in SkillKeys : Skill(call.scoutSkills, key) = 0

\* the draws of the call give the largest noise the bound allows
LargestNoise == \A i \in {1, 7} : call.rnd[i] = RandDen - 1

\* C23: for every skill profile both accuracies lie in [0.70, 0.95]; confidence.attributes
\* and confidence.potential are in [70,95], and are 70 when every skill is 0 or missing;
\* the maximum errors 10 - floor(accuracy * 10) are in {1,2,3}, so that the largest noise
\* on an attribute and on the potential is never 0, every skill at 10 included.
C23_AccuracyWithinBounds ==
  Returned("generateScoutingReport") =>
    /\ AttributeAccuracyInRange[CallTalent, CallKnowledge]
    /\ PotentialAccuracyInRange[CallAssessment, CallTalent]
    /\ InRange(result.confidence.attributes, 70, 95)
    /\ InRange(result.confidence.potential, 70, 95)
    /\ Unskilled => (result.confidence.attributes = 70 /\ result.confidence.potential = 70)
    /\ maxError[CallTalent, CallKnowledge] \in {1, 2, 3}
    /\ maxPotentialError[CallAssessment, CallTalent] \in {1, 2, 3}
    /\ LargestNoise =>
         /\ Distance(result.perceivedAttributes.technical, call.player.attributes.technical)
              = maxError[CallTalent, CallKnowledge]
         /\ Distance(result.perceivedPotential, call.player.potential)
              = maxPotentialError[CallAssessment, CallTalent]

\* every skill at 10: both confidences are 95 and the largest noise moves technical and
\* the potential by 1
C23_Witness ==
  /\ Returned("generateScoutingReport")
  /\ \A key \in SkillKeys : Skill(call.scoutSkills, key) = 10
  /\ LargestNoise
  /\ result.confidence.attributes = 95
  /\ result.confidence.potential = 95
  /\ Distance(result.perceivedAttributes.technical, call.player.attributes.technical) = 1
  /\ Distance(result.perceivedPotential, call.player.potential) = 1
====
